---- MODULE Spec2Model ----
(***************************************************************************)
(* A model of geoqa's geometry quality engine (src/geoqa/geometry.py):     *)
(* GeometryChecker and TopologyChecker over a GeoDataFrame.                *)
(*                                                                         *)
(* A geometry is a record  [geom_type, parts]  where parts is a sequence   *)
(* of parts, a part is a sequence of coordinate sequences (the rings of a  *)
(* polygon, the path of a line, the single coordinate of a point) and a    *)
(* coordinate is <<x, y>>.  Coordinates are fixed-point decimals with      *)
(* FracDigits digits after the point: the integer c stands for             *)
(* c / 10^FracDigits.  A null geometry slot (Python None) is NullGeom; an  *)
(* empty geometry has no parts.                                            *)
(***************************************************************************)
EXTENDS Integers, Sequences, FiniteSets, TLC

\* Largest number of features of a store.
MaxFeatures == 3
\* Decimal digits kept after the point of a coordinate.
FracDigits == 1
\* Longest chain of fix_invalid calls applied to returned stores.
MaxRepairs == 2

RECURSIVE Pow10(_)
Pow10(k) == IF k = 0 THEN 1 ELSE 10 * Pow10(k - 1)

\* The coordinate value n (a whole number) in fixed point.
U(n) == n * Pow10(FracDigits)

Range(s) == {s[i] : i \in DOMAIN s}

RECURSIVE SumSeq(_)
SumSeq(s) == IF s = <<>> THEN 0 ELSE Head(s) + SumSeq(Tail(s))

RECURSIVE Flatten(_)
Flatten(ss) == IF ss = <<>> THEN <<>> ELSE Head(ss) \o Flatten(Tail(ss))

\* The orderings of a finite set, as sequences without repetition.
Orderings(S) ==
    {f \in [1..Cardinality(S) -> S] : \A i, j \in DOMAIN f : i # j => f[i] # f[j]}

(***************************************************************************)
(* Geometry values and the shapely predicates the checkers call.           *)
(***************************************************************************)
NullGeom == [geom_type |-> "None", parts |-> <<>>]

Point(p) == [geom_type |-> "Point", parts |-> << << <<p>> >> >>]
LineString(cs) == [geom_type |-> "LineString", parts |-> << <<cs>> >>]
\* Polygon(shell) closes the ring as shapely's constructor does.
Polygon(shell) == [geom_type |-> "Polygon", parts |-> << << Append(shell, shell[1]) >> >>]
EmptyPolygon == [geom_type |-> "Polygon", parts |-> <<>>]
MultiPolygon(rings) ==
    [geom_type |-> "MultiPolygon", parts |-> [i \in DOMAIN rings |-> << rings[i] >>]]

\* A polygon with one interior ring.
PolygonWithHole(shell, hole) ==
    [geom_type |-> "Polygon",
     parts |-> << << Append(shell, shell[1]), Append(hole, hole[1]) >> >>]
MultiPoint(ps) == [geom_type |-> "MultiPoint", parts |-> [i \in DOMAIN ps |-> << <<ps[i]>> >>]]

is_null(g) == g = NullGeom
\* hasattr(geom, "geoms")
IsMulti(g) == g.geom_type \in {"MultiPolygon", "MultiPoint"}
is_empty(g) == g.parts = <<>>
IsPolygonal(g) == g.geom_type \in {"Polygon", "MultiPolygon"}

\* Every coordinate sequence of g (rings, paths, points), in traversal order.
Paths(g) == Flatten(g.parts)
\* Every coordinate of g, in traversal order.
Coords(g) == Flatten(Paths(g))

\* Twice the signed area of triangle a b c; > 0 when a, b, c turn left.
Orient(a, b, c) == (b[1] - a[1]) * (c[2] - a[2]) - (b[2] - a[2]) * (c[1] - a[1])

Min(a, b) == IF a < b THEN a ELSE b
Max(a, b) == IF a > b THEN a ELSE b
Abs(a) == IF a < 0 THEN -a ELSE a
Sign(a) == IF a < 0 THEN -1 ELSE IF a > 0 THEN 1 ELSE 0

\* p lies on the closed segment a b.
OnSeg(p, a, b) ==
    /\ Orient(a, b, p) = 0
    /\ Min(a[1], b[1]) <= p[1] /\ p[1] <= Max(a[1], b[1])
    /\ Min(a[2], b[2]) <= p[2] /\ p[2] <= Max(a[2], b[2])

\* The open segments a b and c d cross in a single interior point.
SegsCross(a, b, c, d) ==
    /\ Sign(Orient(a, b, c)) * Sign(Orient(a, b, d)) < 0
    /\ Sign(Orient(c, d, a)) * Sign(Orient(c, d, b)) < 0

\* The closed segments a b and c d share a point.
SegsIntersect(a, b, c, d) ==
    \/ SegsCross(a, b, c, d)
    \/ OnSeg(c, a, b) \/ OnSeg(d, a, b) \/ OnSeg(a, c, d) \/ OnSeg(b, c, d)

\* The segments (pairs of end points) of a coordinate sequence.
Segs(path) == {<<path[i], path[i + 1]>> : i \in 1..(Len(path) - 1)}

\* Twice the signed area enclosed by a closed ring (shoelace formula).
RECURSIVE Shoelace2(_, _)
Shoelace2(ring, i) ==
    IF i >= Len(ring) THEN 0
    ELSE ring[i][1] * ring[i + 1][2] - ring[i + 1][1] * ring[i][2] + Shoelace2(ring, i + 1)

\* A closed ring is simple: no vertex repeats and edges meet only where
\* consecutive edges share their common vertex.
RingSimple(ring) ==
    LET n == Len(ring) - 1 IN
    /\ n >= 3
    /\ ring[1] = ring[n + 1]
    /\ \A i, j \in 1..n : i < j => ring[i] # ring[j]
    /\ Shoelace2(ring, 1) # 0
    /\ \A i, j \in 1..n :
          (i < j /\ j # i + 1 /\ ~(i = 1 /\ j = n)) =>
              ~SegsIntersect(ring[i], ring[i + 1], ring[j], ring[j + 1])

\* p is strictly inside the closed ring (ray casting, boundary excluded).
InsideRing(p, ring) ==
    LET crossing(i) ==
            LET a == ring[i]
                b == ring[i + 1]
                d == b[2] - a[2]
                lhs == (p[1] - a[1]) * d
                rhs == (p[2] - a[2]) * (b[1] - a[1])
            IN  /\ (a[2] > p[2]) # (b[2] > p[2])
                /\ IF d > 0 THEN lhs < rhs ELSE lhs > rhs
        hits == {i \in 1..(Len(ring) - 1) : crossing(i)}
    IN  /\ \A i \in 1..(Len(ring) - 1) : ~OnSeg(p, ring[i], ring[i + 1])
        /\ Cardinality(hits) % 2 = 1

\* The interiors of two simple rings are disjoint: no edges cross and
\* neither ring has a vertex strictly inside the other, nor are they equal
\* as sets of vertices.
RingsInteriorDisjoint(r, s) ==
    /\ \A e \in Segs(r), f \in Segs(s) : ~SegsCross(e[1], e[2], f[1], f[2])
    /\ \A i \in DOMAIN r : ~InsideRing(r[i], s)
    /\ \A i \in DOMAIN s : ~InsideRing(s[i], r)
    /\ Range(r) # Range(s)

\* shapely's is_valid (OGC simple-feature validity).  An empty geometry is
\* valid.  The polygons of the model have no holes.
is_valid(g) ==
    IF is_empty(g) THEN TRUE
    ELSE IF IsPolygonal(g) THEN
        /\ \A k \in DOMAIN g.parts : RingSimple(g.parts[k][1])
        /\ \A k, l \in DOMAIN g.parts :
              k < l => RingsInteriorDisjoint(g.parts[k][1], g.parts[l][1])
    ELSE IF g.geom_type = "LineString" THEN
        Len(Paths(g)[1]) >= 2 /\ Cardinality(Range(Paths(g)[1])) >= 2
    ELSE TRUE

(***************************************************************************)
(* shapely.validation: explain_validity and make_valid.                    *)
(***************************************************************************)
\* Pairs of edges of a ring that cross in an interior point of both.
CrossPairs(ring) ==
    {ij \in (1..(Len(ring) - 1)) \X (1..(Len(ring) - 1)) :
        /\ ij[1] < ij[2]
        /\ SegsCross(ring[ij[1]], ring[ij[1] + 1], ring[ij[2]], ring[ij[2] + 1])}

\* Pairs of positions of a ring holding the same vertex (the closing
\* coordinate apart).
RepeatPairs(ring) ==
    {pq \in (1..(Len(ring) - 1)) \X (1..(Len(ring) - 1)) :
        pq[1] < pq[2] /\ ring[pq[1]] = ring[pq[2]]}

\* The least pair of a non-empty set of pairs, in lexicographic order.
FirstPair(S) ==
    CHOOSE m \in S : \A o \in S : m[1] < o[1] \/ (m[1] = o[1] /\ m[2] <= o[2])

\* The point where segments a b and c d cross.
CrossPoint(a, b, c, d) ==
    LET num == Orient(c, d, a)
        den == Orient(c, d, a) - Orient(c, d, b)
    IN  <<a[1] + ((b[1] - a[1]) * num) \div den, a[2] + ((b[2] - a[2]) * num) \div den>>

\* Noding: the ring with the crossing point of its first pair of crossing
\* edges inserted on both edges.
Node(ring) ==
    IF CrossPairs(ring) = {} THEN ring
    ELSE LET ij == FirstPair(CrossPairs(ring))
             i == ij[1]
             j == ij[2]
             X == CrossPoint(ring[i], ring[i + 1], ring[j], ring[j + 1])
         IN  SubSeq(ring, 1, i) \o <<X>> \o SubSeq(ring, i + 1, j) \o <<X>>
                \o SubSeq(ring, j + 1, Len(ring))

\* Polygonizing: a ring that passes twice through a vertex is cut there
\* into the two rings it is made of.
Split(ring) ==
    IF RepeatPairs(ring) = {} THEN <<ring>>
    ELSE LET pq == FirstPair(RepeatPairs(ring))
         IN  << SubSeq(ring, pq[1], pq[2]),
                SubSeq(ring, 1, pq[1]) \o SubSeq(ring, pq[2] + 1, Len(ring)) >>

\* explain_validity: the reason a geometry is invalid (location omitted).
explain_validity(g) ==
    IF is_valid(g) THEN "Valid Geometry"
    ELSE IF \E k \in DOMAIN g.parts : Cardinality(Range(g.parts[k][1])) < 3
        THEN "Too few points in geometry component"
    ELSE IF \E k \in DOMAIN g.parts : CrossPairs(g.parts[k][1]) # {} THEN "Self-intersection"
    ELSE IF \E k \in DOMAIN g.parts : RepeatPairs(g.parts[k][1]) # {}
        THEN "Ring Self-intersection"
    ELSE "Invalid Geometry"

\* A repair that does one step per call: it nodes a crossing and leaves the
\* cut to the next call.
make_valid_one_step(g) ==
    IF is_valid(g) \/ g.geom_type # "Polygon" THEN g
    ELSE LET ring == g.parts[1][1] IN
         IF CrossPairs(ring) # {}
         THEN [geom_type |-> "Polygon", parts |-> << <<Node(ring)>> >>]
         ELSE LET rs == Split(ring) IN
              IF Len(rs) = 1 THEN g ELSE MultiPolygon(rs)

\* make_valid: a valid geometry is returned as it is; a polygon whose ring
\* crosses or touches itself is noded and cut into a multi-polygon of the
\* rings it is made of (vertices in the traversal order of the input).
make_valid(g) ==
    IF is_valid(g) \/ g.geom_type # "Polygon" THEN g
    ELSE LET rs == Split(Node(g.parts[1][1])) IN
         IF Len(rs) = 1 THEN g ELSE MultiPolygon(rs)

(***************************************************************************)
(* The canonical binary encoding (WKB) of a geometry, as a sequence of     *)
(* numbers: byte order, type code, counts and coordinates.                 *)
(***************************************************************************)
WkbCoords(path) == Flatten([i \in DOMAIN path |-> <<path[i][1], path[i][2]>>])

WkbRings(part) == Flatten([r \in DOMAIN part |-> <<Len(part[r])>> \o WkbCoords(part[r])])

WkbPolygon(part) == <<1, 3, Len(part)>> \o WkbRings(part)

wkb(g) ==
    IF g.geom_type = "Point" THEN <<1, 1>> \o WkbCoords(Paths(g)[1])
    ELSE IF g.geom_type = "LineString" THEN
        <<1, 2, Len(Paths(g)[1])>> \o WkbCoords(Paths(g)[1])
    ELSE IF g.geom_type = "Polygon" THEN
        IF is_empty(g) THEN <<1, 3, 0>> ELSE WkbPolygon(g.parts[1])
    ELSE IF g.geom_type = "MultiPoint" THEN
        <<1, 4, Len(g.parts)>>
            \o Flatten([k \in DOMAIN g.parts |-> <<1, 1>> \o WkbCoords(g.parts[k][1])])
    ELSE <<1, 6, Len(g.parts)>> \o Flatten([k \in DOMAIN g.parts |-> WkbPolygon(g.parts[k])])

\* Python None in a series of encodings.
NoneValue == <<>>

(***************************************************************************)
(* The store: a GeoDataFrame, with its row labels (index), its columns and *)
(* the name of its active geometry column.                                 *)
(***************************************************************************)
VARIABLES
    gdf,        \* the frame the checker was constructed on (self._gdf)
    ret,        \* the last call and what it returned
    profile     \* the GeoProfile constructed on gdf, if any

vars == <<gdf, ret, profile>>

\* len(gdf)
NumRows(f) == Len(f.index)

\* gdf.geometry: the active geometry column.
Geometry(f) == f.columns[f.geometry_name]

\* The geometries a store is made of.  The valid ones are a point, an
\* axis-parallel line and axis-parallel rectangles; Bowtie crosses itself.
SquareA == Polygon(<< <<U(0), U(0)>>, <<U(2), U(0)>>, <<U(2), U(2)>>, <<U(0), U(2)>> >>)
SquareB == Polygon(<< <<U(1), U(1)>>, <<U(3), U(1)>>, <<U(3), U(3)>>, <<U(1), U(3)>> >>)
SquareC == Polygon(<< <<U(2), U(0)>>, <<U(3), U(0)>>, <<U(3), U(1)>>, <<U(2), U(1)>> >>)
Bowtie == Polygon(<< <<U(0), U(0)>>, <<U(2), U(2)>>, <<U(2), U(0)>>, <<U(0), U(2)>> >>)
PointP == Point(<<U(1), U(1)>>)
LineL == LineString(<< <<U(0), U(0)>>, <<U(2), U(0)>> >>)

Universe == {NullGeom, EmptyPolygon, SquareA, SquareB, SquareC, Bowtie, PointP, LineL}

\* Row labels: the default RangeIndex 0..n-1, or the labels left after rows
\* were filtered out of a larger frame (1, 3, 5, ...).
RangeIndex(n) == [i \in 1..n |-> i - 1]
FilteredIndex(n) == [i \in 1..n |-> 2 * i - 1]

Frame(name, index, geoms) ==
    [geometry_name |-> name, index |-> index, columns |-> (name :> geoms)]

GeomSeqs == UNION {[1..n -> Universe] : n \in 0..MaxFeatures}

\* The frames a checker is constructed on: frames as read from a file
\* (column "geometry", default labels), frames with rows filtered out, and
\* frames whose geometry column has another name.
Stores(gs) ==
    {Frame("geometry", RangeIndex(Len(gs)), gs),
     Frame("geometry", FilteredIndex(Len(gs)), gs),
     Frame("geom", RangeIndex(Len(gs)), gs)}

(***************************************************************************)
(* GeometryChecker                                                         *)
(***************************************************************************)
\* The loop of check_validity from feature i on (i counts from 1; the
\* Python index of feature i is i - 1).
RECURSIVE ValidityLoop(_, _, _, _)
ValidityLoop(geoms, i, invalid_indices, invalid_reasons) ==
    IF i > Len(geoms) THEN <<invalid_indices, invalid_reasons>>
    ELSE LET geom == geoms[i] IN
         IF is_null(geom) \/ is_empty(geom)
         THEN ValidityLoop(geoms, i + 1, invalid_indices, invalid_reasons)
         ELSE IF ~is_valid(geom)
         THEN ValidityLoop(geoms, i + 1, Append(invalid_indices, i - 1),
                           Append(invalid_reasons, <<i - 1, explain_validity(geom)>>))
         ELSE ValidityLoop(geoms, i + 1, invalid_indices, invalid_reasons)

\* check_validity with null and empty geometries left out of valid_count.
check_validity_strict(f) ==
    LET r == ValidityLoop(Geometry(f), 1, <<>>, <<>>)
        skipped == {i \in DOMAIN Geometry(f) : is_null(Geometry(f)[i]) \/ is_empty(Geometry(f)[i])}
    IN  [valid_count |-> NumRows(f) - Len(r[1]) - Cardinality(skipped),
         invalid_count |-> Len(r[1]),
         invalid_indices |-> r[1],
         invalid_reasons |-> r[2]]

\* check_validity whose loop stops at the first null or empty geometry
\* instead of going on to the next feature.
RECURSIVE FirstSkipped(_, _)
FirstSkipped(geoms, i) ==
    IF i > Len(geoms) THEN i
    ELSE IF is_null(geoms[i]) \/ is_empty(geoms[i]) THEN i
    ELSE FirstSkipped(geoms, i + 1)

check_validity_break(f) ==
    LET geoms == SubSeq(Geometry(f), 1, FirstSkipped(Geometry(f), 1) - 1)
        r == ValidityLoop(geoms, 1, <<>>, <<>>)
    IN  [valid_count |-> NumRows(f) - Len(r[1]),
         invalid_count |-> Len(r[1]),
         invalid_indices |-> r[1],
         invalid_reasons |-> r[2]]

check_validity(f) ==
    LET r == ValidityLoop(Geometry(f), 1, <<>>, <<>>)
    IN  [valid_count |-> NumRows(f) - Len(r[1]),
         invalid_count |-> Len(r[1]),
         invalid_indices |-> r[1],
         invalid_reasons |-> r[2]]

\* pandas Series.duplicated: element i is marked when an equal element
\* stands before it (keep = "first") or anywhere else (keep = "False").
\* Missing values (None) are equal to one another.
duplicated(values, keep) ==
    [i \in DOMAIN values |->
        IF keep = "first" THEN \E j \in 1..(i - 1) : values[j] = values[i]
        ELSE \E j \in DOMAIN values : j # i /\ values[j] = values[i]]

\* index[mask]: the row labels at the marked positions, in order.
RECURSIVE Masked(_, _, _)
Masked(index, mask, i) ==
    IF i > Len(index) THEN <<>>
    ELSE (IF mask[i] THEN <<index[i]>> ELSE <<>>) \o Masked(index, mask, i + 1)

\* The encodings compared by check_duplicates: None for a null or empty
\* geometry.
wkb_values(f) ==
    [i \in DOMAIN Geometry(f) |->
        IF ~is_null(Geometry(f)[i]) /\ ~is_empty(Geometry(f)[i])
        THEN wkb(Geometry(f)[i]) ELSE NoneValue]

check_duplicates(f) ==
    IF NumRows(f) = 0 THEN [duplicate_count |-> 0, duplicate_indices |-> <<>>]
    ELSE LET duplicated_mask == duplicated(wkb_values(f), "False")
             first_mask == duplicated(wkb_values(f), "first")
         IN  [duplicate_count |-> Cardinality({i \in DOMAIN first_mask : first_mask[i]}),
              duplicate_indices |-> Masked(f.index, duplicated_mask, 1)]

\* check_empty: the positions of the non-null geometries that are empty.
RECURSIVE EmptyLoop(_, _, _)
EmptyLoop(geoms, i, empty_indices) ==
    IF i > Len(geoms) THEN empty_indices
    ELSE IF ~is_null(geoms[i]) /\ is_empty(geoms[i])
    THEN EmptyLoop(geoms, i + 1, Append(empty_indices, i - 1))
    ELSE EmptyLoop(geoms, i + 1, empty_indices)

\* check_empty that takes a null geometry for an empty one.
check_empty_null_too(f) ==
    LET geoms == [i \in DOMAIN Geometry(f) |->
                     IF is_null(Geometry(f)[i]) THEN EmptyPolygon ELSE Geometry(f)[i]]
        empty_indices == EmptyLoop(geoms, 1, <<>>)
    IN  [empty_count |-> Len(empty_indices), empty_indices |-> empty_indices]

check_empty(f) ==
    LET empty_indices == EmptyLoop(Geometry(f), 1, <<>>)
    IN  [empty_count |-> Len(empty_indices), empty_indices |-> empty_indices]

\* check_null: the positions of the null geometries.
RECURSIVE NullLoop(_, _, _)
NullLoop(geoms, i, null_indices) ==
    IF i > Len(geoms) THEN null_indices
    ELSE IF is_null(geoms[i])
    THEN NullLoop(geoms, i + 1, Append(null_indices, i - 1))
    ELSE NullLoop(geoms, i + 1, null_indices)

check_null(f) ==
    LET null_indices == NullLoop(Geometry(f), 1, <<>>)
    IN  [null_count |-> Len(null_indices), null_indices |-> null_indices]

\* A Python dict is a sequence of <<key, value>> entries in the order the
\* keys were first inserted.  DictGet is d.get(key, default).
DictKeys(d) == [k \in DOMAIN d |-> d[k][1]]

DictGet(d, key, default) ==
    IF \E k \in DOMAIN d : d[k][1] = key
    THEN d[CHOOSE k \in DOMAIN d : d[k][1] = key][2]
    ELSE default

\* d[key] = value: an existing key keeps its place, a new one goes last.
DictSet(d, key, value) ==
    IF \E k \in DOMAIN d : d[k][1] = key
    THEN [k \in DOMAIN d |-> IF d[k][1] = key THEN <<key, value>> ELSE d[k]]
    ELSE Append(d, <<key, value>>)

\* The counting loop of check_geometry_types.
RECURSIVE TypeLoop(_, _, _)
TypeLoop(geoms, i, type_counts) ==
    IF i > Len(geoms) THEN type_counts
    ELSE LET gtype == IF is_null(geoms[i]) THEN "None" ELSE geoms[i].geom_type
         IN  TypeLoop(geoms, i + 1,
                      DictSet(type_counts, gtype, DictGet(type_counts, gtype, 0) + 1))

\* {k: v for k, v in type_counts.items() if k != "None"}
RECURSIVE RealTypes(_, _)
RealTypes(type_counts, k) ==
    IF k > Len(type_counts) THEN <<>>
    ELSE (IF type_counts[k][1] # "None" THEN <<type_counts[k]>> ELSE <<>>)
         \o RealTypes(type_counts, k + 1)

\* max(d, key=d.get): the first key, in the order of the dict, whose value
\* no other value exceeds.
RECURSIVE MaxKeyFrom(_, _, _)
MaxKeyFrom(d, k, best) ==
    IF k > Len(d) THEN d[best][1]
    ELSE IF d[k][2] > d[best][2] THEN MaxKeyFrom(d, k + 1, k)
    ELSE MaxKeyFrom(d, k + 1, best)

\* max that keeps the last of several keys with the greatest value.
RECURSIVE MaxKeyLastFrom(_, _, _)
MaxKeyLastFrom(d, k, best) ==
    IF k > Len(d) THEN d[best][1]
    ELSE IF d[k][2] >= d[best][2] THEN MaxKeyLastFrom(d, k + 1, k)
    ELSE MaxKeyLastFrom(d, k + 1, best)

MaxKeyLast(d) == MaxKeyLastFrom(d, 2, 1)

MaxKey(d) == MaxKeyFrom(d, 2, 1)

\* check_geometry_types that counts a geometry only when it has coordinates.
check_geometry_types_skip_empty(f) ==
    LET geoms == SelectSeq(Geometry(f), LAMBDA g : is_null(g) \/ ~is_empty(g))
        type_counts == TypeLoop(geoms, 1, <<>>)
        real_types == RealTypes(type_counts, 1)
    IN  [mixed_types |-> Len(real_types) > 1,
         geometry_types |-> type_counts,
         geometry_type |-> IF real_types # <<>> THEN MaxKey(real_types) ELSE "Unknown"]

\* check_geometry_types that takes every bucket, "None" included, for a type.
check_geometry_types_none_is_type(f) ==
    LET type_counts == TypeLoop(Geometry(f), 1, <<>>)
        real_types == RealTypes(type_counts, 1)
    IN  [mixed_types |-> Len(type_counts) > 1,
         geometry_types |-> type_counts,
         geometry_type |-> IF real_types # <<>> THEN MaxKey(real_types) ELSE "Unknown"]

check_geometry_types(f) ==
    LET type_counts == TypeLoop(Geometry(f), 1, <<>>)
        real_types == RealTypes(type_counts, 1)
    IN  [mixed_types |-> Len(real_types) > 1,
         geometry_types |-> type_counts,
         geometry_type |-> IF real_types # <<>> THEN MaxKey(real_types) ELSE "Unknown"]

\* _count_vertices: the coordinates of every ring or path of the geometry.
CountVertices(geom) == SumSeq([k \in DOMAIN Paths(geom) |-> Len(Paths(geom)[k])])

\* compute_complexity that files the sum of the vertices under the key of
\* the feature count.
compute_complexity_total_key(f) ==
    LET vertex_counts == [i \in DOMAIN Geometry(f) |->
                             IF is_null(Geometry(f)[i]) \/ is_empty(Geometry(f)[i]) THEN 0
                             ELSE SumSeq([k \in DOMAIN Paths(Geometry(f)[i]) |->
                                             Len(Paths(Geometry(f)[i])[k])])]
        arr == IF vertex_counts # <<>> THEN vertex_counts ELSE <<0>>
        most == CHOOSE m \in Range(arr) : \A v \in Range(arr) : v <= m
        least == CHOOSE m \in Range(arr) : \A v \in Range(arr) : v >= m
    IN  [avg_vertices |-> <<SumSeq(arr), Len(arr)>>,
         max_vertices |-> most,
         min_vertices |-> least,
         total_features |-> SumSeq(arr)]

\* compute_complexity.  avg_vertices is the quotient total / number of
\* features, kept as the pair of its terms.
compute_complexity(f) ==
    LET vertex_counts == [i \in DOMAIN Geometry(f) |->
                             IF is_null(Geometry(f)[i]) \/ is_empty(Geometry(f)[i]) THEN 0
                             ELSE CountVertices(Geometry(f)[i])]
        arr == IF vertex_counts # <<>> THEN vertex_counts ELSE <<0>>
        most == CHOOSE m \in Range(arr) : \A v \in Range(arr) : v <= m
        least == CHOOSE m \in Range(arr) : \A v \in Range(arr) : v >= m
    IN  [avg_vertices |-> <<SumSeq(arr), Len(arr)>>,
         max_vertices |-> most,
         min_vertices |-> least,
         total_vertices |-> SumSeq(arr)]

\* fix_invalid: a copy of the frame whose column "geometry" holds the
\* repaired active geometry column.  Assigning to the key "geometry" sets
\* (or adds) the column of that name; the active geometry column of the
\* copy stays the one the frame had.
fix_invalid(f) ==
    LET repaired == [i \in DOMAIN Geometry(f) |->
                        IF ~is_null(Geometry(f)[i]) /\ ~is_valid(Geometry(f)[i])
                        THEN make_valid(Geometry(f)[i]) ELSE Geometry(f)[i]]
    IN  [f EXCEPT !.columns = ("geometry" :> repaired) @@ f.columns]

\* fix_invalid without the copy: gdf and self._gdf are one frame, and the
\* assignment shows in both.
FixInvalidFramesAliased(f) == [self_gdf |-> fix_invalid(f), gdf |-> fix_invalid(f)]

\* The two frames fix_invalid works with once line 237 has run: self._gdf,
\* and the local gdf, which copy() made a separate frame of equal contents.
\* The assignment of line 238 goes to the local frame only.
FixInvalidFrames(f) ==
    LET frames == [self_gdf |-> f, gdf |-> f]
    IN  [frames EXCEPT !.gdf = fix_invalid(f)]

(***************************************************************************)
(* Spatial predicates used by the overlap scan.                            *)
(***************************************************************************)
\* The segments of a geometry; a point is a segment of length zero.
SegsOf(g) ==
    UNION {IF Len(path) = 1 THEN {<<path[1], path[1]>>} ELSE Segs(path) :
              path \in Range(Paths(g))}

\* p is strictly inside one of the rings of a polygonal geometry.
InsideGeom(p, g) ==
    IsPolygonal(g) /\ \E k \in DOMAIN g.parts : InsideRing(p, g.parts[k][1])

\* The predicate "intersects": the two geometries share a point.
Intersects(g, h) ==
    \/ \E e \in SegsOf(g), d \in SegsOf(h) : SegsIntersect(e[1], e[2], d[1], d[2])
    \/ \E c \in Range(Coords(g)) : InsideGeom(c, h)
    \/ \E c \in Range(Coords(h)) : InsideGeom(c, g)

\* sindex.query(geom, predicate="intersects"): the positions of the
\* non-null, non-empty geometries of the frame that intersect geom.
SindexQuery(geoms, geom) ==
    {j \in DOMAIN geoms : ~is_null(geoms[j]) /\ ~is_empty(geoms[j]) /\ Intersects(geom, geoms[j])}

Double(ring) == [i \in DOMAIN ring |-> <<2 * ring[i][1], 2 * ring[i][2]>>]

\* The cells of the grid drawn through every coordinate of g and h, as
\* <<x1, x2, y1, y2>>.
GridCells(g, h) ==
    LET cs == Range(Coords(g)) \cup Range(Coords(h))
        xs == {c[1] : c \in cs}
        ys == {c[2] : c \in cs}
        next(S) == {ab \in S \X S : ab[1] < ab[2] /\ ~\E m \in S : ab[1] < m /\ m < ab[2]}
    IN  {<<x[1], x[2], y[1], y[2]>> : x \in next(xs), y \in next(ys)}

\* The centre of a cell lies inside g (tested on doubled coordinates).
CellInside(cell, g) ==
    IsPolygonal(g) /\
    \E k \in DOMAIN g.parts :
        InsideRing(<<cell[1] + cell[2], cell[3] + cell[4]>>, Double(g.parts[k][1]))

RECURSIVE CellArea(_)
CellArea(cells) ==
    IF cells = {} THEN 0
    ELSE LET c == CHOOSE c \in cells : TRUE
         IN  (c[2] - c[1]) * (c[4] - c[3]) + CellArea(cells \ {c})

\* geom.intersection(other): the emptiness and the area of the result.  The
\* area is exact for polygons whose edges are parallel to the axes, which
\* all valid polygons of Universe are (the scan skips the invalid ones).
intersection(g, h) ==
    [is_empty |-> ~Intersects(g, h),
     area |-> CellArea({c \in GridCells(g, h) : CellInside(c, g) /\ CellInside(c, h)})]

(***************************************************************************)
(* TopologyChecker                                                         *)
(***************************************************************************)
\* The first loop of check_self_overlaps: the lower-cased type of the first
\* non-null geometry contains "polygon".
RECURSIVE FirstNonNullPolygonal(_, _)
FirstNonNullPolygonal(geoms, i) ==
    IF i > Len(geoms) THEN FALSE
    ELSE IF ~is_null(geoms[i]) THEN IsPolygonal(geoms[i])
    ELSE FirstNonNullPolygonal(geoms, i + 1)

\* The inner loop of check_self_overlaps without the test of the area: any
\* candidate whose intersection is not empty is kept.
OverlapHitsNoArea(geoms, idx) ==
    IF is_null(geoms[idx]) \/ is_empty(geoms[idx]) \/ ~is_valid(geoms[idx]) THEN {}
    ELSE {other_idx \in SindexQuery(geoms, geoms[idx]) :
            /\ ~(other_idx <= idx)
            /\ ~(is_null(geoms[other_idx]) \/ is_empty(geoms[other_idx])
                    \/ ~is_valid(geoms[other_idx]))
            /\ ~intersection(geoms[idx], geoms[other_idx]).is_empty}

\* The candidates of feature idx that pass the tests of the inner loop of
\* check_self_overlaps (positions from 1).
OverlapHits(geoms, idx) ==
    IF is_null(geoms[idx]) \/ is_empty(geoms[idx]) \/ ~is_valid(geoms[idx]) THEN {}
    ELSE {other_idx \in SindexQuery(geoms, geoms[idx]) :
            /\ ~(other_idx <= idx)
            /\ ~(is_null(geoms[other_idx]) \/ is_empty(geoms[other_idx])
                    \/ ~is_valid(geoms[other_idx]))
            /\ LET x == intersection(geoms[idx], geoms[other_idx])
               IN  ~x.is_empty /\ x.area > 0}

\* The pair lists the scan can build from feature idx on.  The spatial
\* index returns the candidates of a feature in no guaranteed order, so the
\* pairs of one feature may come in any order.
RECURSIVE ScanFrom(_, _)
ScanFrom(geoms, idx) ==
    IF idx > Len(geoms) THEN {<<>>}
    ELSE {[k \in DOMAIN ord |-> <<idx - 1, ord[k] - 1>>] \o rest :
             ord \in Orderings(OverlapHits(geoms, idx)), rest \in ScanFrom(geoms, idx + 1)}

\* check_self_overlaps: the set of results the call can return.
check_self_overlaps(f) ==
    IF ~FirstNonNullPolygonal(Geometry(f), 1)
    THEN {[self_overlap_count |-> 0, self_overlap_pairs |-> <<>>]}
    ELSE {[self_overlap_count |-> Len(pairs), self_overlap_pairs |-> pairs] :
             pairs \in ScanFrom(Geometry(f), 1)}

\* LinearRing.is_ccw, as the set of values it can return.  A simple ring
\* that bounds an area is counter-clockwise when its signed area is
\* positive.  A ring without three distinct points is never reported
\* counter-clockwise.  For any other ring (one that crosses itself or lies
\* on a line) the library computes an orientation at the highest vertex and
\* does not promise the result: either value.
is_ccw(ring) ==
    IF Cardinality(Range(ring)) < 3 THEN {FALSE}
    ELSE IF RingSimple(ring) /\ Shoelace2(ring, 1) # 0 THEN {Shoelace2(ring, 1) > 0}
    ELSE {TRUE, FALSE}

\* The inner loop of check_ring_validity: some polygon of the feature, from
\* part k on, has an exterior ring that is not counter-clockwise.  The
\* interior rings (polygons[k][2], ...) are not looked at.
RECURSIVE AnyBadExterior(_, _)
AnyBadExterior(polygons, k) ==
    IF k > Len(polygons) THEN {FALSE}
    ELSE UNION {IF ~ccw THEN {TRUE} ELSE AnyBadExterior(polygons, k + 1) :
                   ccw \in is_ccw(polygons[k][1])}

RECURSIVE RingLoop(_, _, _)
RingLoop(geoms, i, bad_indices) ==
    IF i > Len(geoms) THEN {bad_indices}
    ELSE LET geom == geoms[i] IN
         IF is_null(geom) \/ is_empty(geom) THEN RingLoop(geoms, i + 1, bad_indices)
         ELSE IF ~IsPolygonal(geom) THEN RingLoop(geoms, i + 1, bad_indices)
         ELSE UNION {RingLoop(geoms, i + 1,
                              IF bad THEN Append(bad_indices, i - 1) ELSE bad_indices) :
                        bad \in AnyBadExterior(geom.parts, 1)}

\* check_ring_validity: the set of results the call can return.
check_ring_validity(f) ==
    {[bad_ring_count |-> Len(bad_indices), bad_ring_indices |-> bad_indices] :
        bad_indices \in RingLoop(Geometry(f), 1, <<>>)}

\* Number of coordinates sampled per geometry.
SampleN == 3
\* Most example coordinates kept by check_coordinate_precision.
MaxSampleCoords == 5
\* Default of max_decimals.
DefaultMaxDecimals == 8

Take(s, n) == SubSeq(s, 1, Min(n, Len(s)))

\* The loop of _extract_sample_coords over the parts of a multi-part
\* geometry: stop once n coordinates are collected.
RECURSIVE SampleParts(_, _, _, _)
SampleParts(parts, k, n, coords) ==
    IF k > Len(parts) THEN coords
    ELSE LET more == coords \o Take(Take(parts[k][1], n), n)
         IN  IF Len(more) >= n THEN more ELSE SampleParts(parts, k + 1, n, more)

\* _extract_sample_coords: up to n coordinates of the geometry: of the
\* exterior ring of a polygon, of the path of a line or point, or of the
\* parts of a multi-part geometry in turn.
ExtractSampleCoords(geom, n) ==
    IF IsMulti(geom) THEN Take(SampleParts(geom.parts, 1, n, <<>>), n)
    ELSE Take(Take(geom.parts[1][1], n), n)

\* The decimal digits of the fixed-point coordinate c as it is written:
\* FracDigits less the trailing zeros.
RECURSIVE DecimalsFrom(_, _)
DecimalsFrom(c, k) ==
    IF k = 0 THEN 0
    ELSE IF c % 10 # 0 THEN k
    ELSE DecimalsFrom(c \div 10, k - 1)

\* The digits after the point of f"{x:.15f}".rstrip("0"), x being the
\* double nearest to the coordinate c.  A whole number prints no digit.  A
\* double below 8 in magnitude is within 4.5e-16 of the decimal it stands
\* for, so the 15 digits printed are those of the decimal.  From 8 to 16
\* the doubles are 1.8e-15 apart, and among the tenths n / 10 the doubles
\* nearest to those with n % 5 in {2, 3} print a 1 as their 15th digit
\* (8.3 prints 8.300000000000001).  Coordinates are kept within this range.
Decimals(c) ==
    LET k == DecimalsFrom(Abs(c), FracDigits)
        n == Abs(c) \div Pow10(FracDigits - 1)
    IN  CASE k = 0 -> 0
          [] k > 0 /\ Abs(c) < U(8) -> k
          [] k = 1 /\ Abs(c) >= U(8) /\ Abs(c) < U(16) ->
                IF n % 5 \in {2, 3} THEN 15 ELSE 1

\* The first sampled coordinate with too many decimals, as a sequence of
\* at most one coordinate.
RECURSIVE FirstExcessive(_, _, _)
FirstExcessive(coords, k, max_decimals) ==
    IF k > Len(coords) THEN <<>>
    ELSE IF Decimals(coords[k][1]) > max_decimals \/ Decimals(coords[k][2]) > max_decimals
    THEN <<coords[k]>>
    ELSE FirstExcessive(coords, k + 1, max_decimals)

RECURSIVE PrecisionLoop(_, _, _, _, _)
PrecisionLoop(geoms, i, max_decimals, excessive_indices, sample_coords) ==
    IF i > Len(geoms) THEN <<excessive_indices, sample_coords>>
    ELSE LET geom == geoms[i] IN
         IF is_null(geom) \/ is_empty(geom)
         THEN PrecisionLoop(geoms, i + 1, max_decimals, excessive_indices, sample_coords)
         ELSE LET hit == FirstExcessive(ExtractSampleCoords(geom, SampleN), 1, max_decimals)
              IN  IF hit = <<>>
                  THEN PrecisionLoop(geoms, i + 1, max_decimals, excessive_indices,
                                     sample_coords)
                  ELSE PrecisionLoop(geoms, i + 1, max_decimals,
                                     Append(excessive_indices, i - 1),
                                     IF Len(sample_coords) < MaxSampleCoords
                                     THEN Append(sample_coords, <<i - 1, hit[1][1], hit[1][2]>>)
                                     ELSE sample_coords)

check_coordinate_precision(f, max_decimals) ==
    LET r == PrecisionLoop(Geometry(f), 1, max_decimals, <<>>, <<>>)
    IN  [excessive_precision_count |-> Len(r[1]),
         excessive_precision_indices |-> r[1],
         precision_sample_coords |-> r[2]]

\* The whole part of the square root of n, sought between lo and hi.
RECURSIVE ISqrtBetween(_, _, _)
ISqrtBetween(n, lo, hi) ==
    IF lo >= hi THEN lo
    ELSE LET mid == (lo + hi + 1) \div 2
         IN  IF mid * mid <= n THEN ISqrtBetween(n, mid, hi) ELSE ISqrtBetween(n, lo, mid - 1)

ISqrt(n) == ISqrtBetween(n, 0, Min(n, 46340))

\* geom.area: the area of a polygonal geometry, the area of each exterior
\* ring less the areas of its interior rings, in squared coordinate units,
\* doubled.
Area2(g) ==
    SumSeq([k \in DOMAIN g.parts |->
        Abs(Shoelace2(g.parts[k][1], 1))
        - SumSeq([h \in 1..(Len(g.parts[k]) - 1) |-> Abs(Shoelace2(g.parts[k][h + 1], 1))])])

\* geom.length: the perimeter, in coordinate units.  Exact for edges
\* parallel to the axes; a slanted edge is rounded down to a whole unit.
PathLength(path) ==
    SumSeq([i \in 1..(Len(path) - 1) |->
        ISqrt((path[i + 1][1] - path[i][1]) * (path[i + 1][1] - path[i][1])
              + (path[i + 1][2] - path[i][2]) * (path[i + 1][2] - path[i][2]))])

Length(g) == SumSeq([k \in DOMAIN Paths(g) |-> PathLength(Paths(g)[k])])

\* Default of compactness_threshold, in hundredths (0.01).
DefaultThresholdPct == 1
\* 800 * pi, rounded: compactness = 4 pi area / perimeter^2 is below
\* t / 100 exactly when 800 pi * (area doubled) < 4 t * perimeter^2.
Pi800 == 2513

\* The test with the perimeter in place of its square.
IsSliverLinear(area2, perimeter, threshold_pct) ==
    area2 <= (4 * threshold_pct * perimeter - 1) \div Pi800

\* 4 pi area / perimeter^2 < threshold_pct / 100
IsSliver(area2, perimeter, threshold_pct) ==
    area2 <= (4 * threshold_pct * perimeter * perimeter - 1) \div Pi800

RECURSIVE SliverLoop(_, _, _, _)
SliverLoop(geoms, i, threshold_pct, sliver_indices) ==
    IF i > Len(geoms) THEN sliver_indices
    ELSE LET geom == geoms[i] IN
         IF is_null(geom) \/ is_empty(geom)
         THEN SliverLoop(geoms, i + 1, threshold_pct, sliver_indices)
         ELSE IF ~IsPolygonal(geom)
         THEN SliverLoop(geoms, i + 1, threshold_pct, sliver_indices)
         ELSE IF Length(geom) > 0 /\ IsSliver(Area2(geom), Length(geom), threshold_pct)
         THEN SliverLoop(geoms, i + 1, threshold_pct, Append(sliver_indices, i - 1))
         ELSE SliverLoop(geoms, i + 1, threshold_pct, sliver_indices)

check_slivers(f, threshold_pct) ==
    LET sliver_indices == SliverLoop(Geometry(f), 1, threshold_pct, <<>>)
    IN  [sliver_count |-> Len(sliver_indices), sliver_indices |-> sliver_indices]

\* dict.update: the entries of d replace and extend those of results.
Update(results, d) == d @@ results

\* Default of max_features.
DefaultMaxFeatures == 10000
\* A ceiling low enough for stores to exceed it.
LowCeiling == 1

\* check_all that skips the scan as soon as the store reaches the ceiling.
TopologyCheckAllStrict(f, max_features) ==
    UNION {LET r1 == Update(<<>>, ring)
               r2 == Update(r1, check_coordinate_precision(f, DefaultMaxDecimals))
               r3 == Update(r2, check_slivers(f, DefaultThresholdPct))
           IN  IF NumRows(f) < max_features
               THEN {Update(r3, o) : o \in check_self_overlaps(f)}
               ELSE {Update(r3, [self_overlap_count |-> -1, self_overlap_skipped |-> TRUE])} :
              ring \in check_ring_validity(f)}

\* TopologyChecker.check_all: the set of results the call can return.
TopologyCheckAll(f, max_features) ==
    UNION {LET r1 == Update(<<>>, ring)
               r2 == Update(r1, check_coordinate_precision(f, DefaultMaxDecimals))
               r3 == Update(r2, check_slivers(f, DefaultThresholdPct))
           IN  IF NumRows(f) <= max_features
               THEN {Update(r3, o) : o \in check_self_overlaps(f)}
               ELSE {Update(r3, [self_overlap_count |-> -1, self_overlap_skipped |-> TRUE])} :
              ring \in check_ring_validity(f)}

\* GeometryChecker.check_all
GeometryCheckAll(f) ==
    LET r0 == [total_features |-> NumRows(f)]
        r1 == Update(r0, check_validity(f))
        r2 == Update(r1, check_empty(f))
        r3 == Update(r2, check_null(f))
        r4 == Update(r3, check_duplicates(f))
        r5 == Update(r4, check_geometry_types(f))
    IN  Update(r5, compute_complexity(f))

(***************************************************************************)
(* The calls a user of the checkers makes, one after the other (the engine *)
(* is single-threaded and synchronous).  ret is the value the caller holds *)
(* from the last call: the method (op), the frame of the checker it was    *)
(* called on (on), its argument (param), what it returned (out) and, for   *)
(* fix_invalid, how many repairs were chained to reach out (repairs).  The *)
(* caller makes the next call once it has dropped that value.              *)
(***************************************************************************)
Call(op, on, param, out, repairs) ==
    [op |-> op, on |-> on, param |-> param, out |-> out, repairs |-> repairs]

NoCall == Call("none", <<>>, 0, <<>>, 0)

\* No GeoProfile has been constructed.
NoProfile == [gdf |-> "None"]

Init ==
    /\ \E gs \in GeomSeqs : gdf \in Stores(gs)
    /\ ret = NoCall
    /\ profile = NoProfile

CheckValidity ==
    /\ ret = NoCall
    /\ ret' = Call("check_validity", gdf, 0, check_validity(gdf), 0)
    /\ UNCHANGED <<gdf, profile>>

CheckEmpty ==
    /\ ret = NoCall
    /\ ret' = Call("check_empty", gdf, 0, check_empty(gdf), 0)
    /\ UNCHANGED <<gdf, profile>>

CheckNull ==
    /\ ret = NoCall
    /\ ret' = Call("check_null", gdf, 0, check_null(gdf), 0)
    /\ UNCHANGED <<gdf, profile>>

CheckGeometryTypes ==
    /\ ret = NoCall
    /\ ret' = Call("check_geometry_types", gdf, 0, check_geometry_types(gdf), 0)
    /\ UNCHANGED <<gdf, profile>>

ComputeComplexity ==
    /\ ret = NoCall
    /\ ret' = Call("compute_complexity", gdf, 0, compute_complexity(gdf), 0)
    /\ UNCHANGED <<gdf, profile>>

GeometryCheckAllCall ==
    /\ ret = NoCall
    /\ ret' = Call("check_all", gdf, 0, GeometryCheckAll(gdf), 0)
    /\ UNCHANGED <<gdf, profile>>

CheckDuplicates ==
    /\ ret = NoCall
    /\ ret' = Call("check_duplicates", gdf, 0, check_duplicates(gdf), 0)
    /\ UNCHANGED <<gdf, profile>>

CheckSelfOverlaps ==
    /\ ret = NoCall
    /\ \E o \in check_self_overlaps(gdf) :
          ret' = Call("check_self_overlaps", gdf, 0, o, 0)
    /\ UNCHANGED <<gdf, profile>>

CheckRingValidity ==
    /\ ret = NoCall
    /\ \E o \in check_ring_validity(gdf) :
          ret' = Call("check_ring_validity", gdf, 0, o, 0)
    /\ UNCHANGED <<gdf, profile>>

CheckCoordinatePrecision ==
    /\ ret = NoCall
    /\ \E max_decimals \in (0..FracDigits) \cup {DefaultMaxDecimals} :
          ret' = Call("check_coordinate_precision", gdf, max_decimals,
                      check_coordinate_precision(gdf, max_decimals), 0)
    /\ UNCHANGED <<gdf, profile>>

CheckSlivers ==
    /\ ret = NoCall
    /\ ret' = Call("check_slivers", gdf, DefaultThresholdPct,
                   check_slivers(gdf, DefaultThresholdPct), 0)
    /\ UNCHANGED <<gdf, profile>>

TopologyCheckAllCall ==
    /\ ret = NoCall
    /\ \E max_features \in {LowCeiling, DefaultMaxFeatures} :
          \E o \in TopologyCheckAll(gdf, max_features) :
              ret' = Call("topology_check_all", gdf, max_features, o, 0)
    /\ UNCHANGED <<gdf, profile>>

\* checker.fix_invalid()
FixInvalid ==
    /\ ret = NoCall
    /\ ret' = Call("fix_invalid", gdf, 0, FixInvalidFrames(gdf).gdf, 1)
    /\ gdf' = FixInvalidFrames(gdf).self_gdf
    /\ UNCHANGED profile

\* GeometryChecker(fixed).fix_invalid(): the repair of a returned frame.
FixInvalidAgain ==
    /\ ret.op = "fix_invalid"
    /\ ret.repairs < MaxRepairs
    /\ ret' = Call("fix_invalid", ret.out, 0, fix_invalid(ret.out), ret.repairs + 1)
    /\ UNCHANGED <<gdf, profile>>

\* The caller drops the value it holds.
Drop ==
    /\ ret # NoCall
    /\ ret' = NoCall
    /\ UNCHANGED <<gdf, profile>>

Next ==
    \/ CheckValidity
    \/ CheckEmpty
    \/ CheckNull
    \/ CheckGeometryTypes
    \/ ComputeComplexity
    \/ GeometryCheckAllCall
    \/ CheckDuplicates
    \/ CheckSelfOverlaps
    \/ CheckRingValidity
    \/ CheckCoordinatePrecision
    \/ CheckSlivers
    \/ TopologyCheckAllCall
    \/ FixInvalid
    \/ FixInvalidAgain
    \/ Drop

Spec == Init /\ [][Next]_vars

(***************************************************************************)
(* The topology checks on stores that hold the shapes those checks tell    *)
(* apart: rings of either winding, interior rings, multi-part geometries,  *)
(* thin and degenerate polygons, and coordinates with decimals; and the    *)
(* checks of GeometryChecker that list features by index.                  *)
(***************************************************************************)
Half == U(1) \div 2
Tenth == U(1) \div 10

\* SquareA traversed clockwise.
SquareCW == Polygon(<< <<U(0), U(0)>>, <<U(0), U(2)>>, <<U(2), U(2)>>, <<U(2), U(0)>> >>)
\* A counter-clockwise square with a clockwise interior ring; the interior
\* ring has coordinates with a decimal.
HoledSquare ==
    PolygonWithHole(<< <<U(0), U(0)>>, <<U(3), U(0)>>, <<U(3), U(3)>>, <<U(0), U(3)>> >>,
                    << <<U(1), U(1)>>, <<U(1), U(2)>>, <<U(2) + Half, U(2)>>,
                       <<U(2) + Half, U(1)>> >>)
\* Three unit squares: the first counter-clockwise, the others clockwise.
ThreeSquares ==
    MultiPolygon(<< << <<U(0), U(0)>>, <<U(1), U(0)>>, <<U(1), U(1)>>, <<U(0), U(1)>>,
                       <<U(0), U(0)>> >>,
                    << <<U(2), U(0)>>, <<U(2), U(1)>>, <<U(3), U(1)>>, <<U(3), U(0)>>,
                       <<U(2), U(0)>> >>,
                    << <<U(4), U(0)>>, <<U(4), U(1)>>, <<U(5), U(1)>>, <<U(5), U(0)>>,
                       <<U(4), U(0)>> >> >>)
\* A 40 x 0.1 rectangle: compactness 0.0078.
Sliver == Polygon(<< <<U(0), U(0)>>, <<U(40), U(0)>>, <<U(40), Tenth>>, <<U(0), Tenth>> >>)
\* A polygon whose ring stays on one point: no area and no perimeter.
Speck == Polygon(<< <<U(1), U(1)>>, <<U(1), U(1)>>, <<U(1), U(1)>> >>)
\* A line whose fourth coordinate is the first with a decimal.
LineFine == LineString(<< <<U(0), U(0)>>, <<U(1), U(0)>>, <<U(2), U(0)>>, <<U(2) + Half, U(0)>> >>)
\* Point(8.3, 1)
PointTenths == Point(<<U(8) + 3 * Tenth, U(1)>>)
\* Two points, the second with a decimal.
PointsFine == MultiPoint(<< <<U(0), U(0)>>, <<Half, U(0)>> >>)

TopologyUniverse ==
    {NullGeom, EmptyPolygon, SquareA, SquareCW, HoledSquare, ThreeSquares, Sliver, Speck,
     LineFine, PointTenths, PointsFine}

TopologyGeomSeqs == UNION {[1..n -> TopologyUniverse] : n \in 0..MaxFeatures}

InitTopology ==
    /\ \E gs \in TopologyGeomSeqs : gdf = Frame("geometry", RangeIndex(Len(gs)), gs)
    /\ ret = NoCall
    /\ profile = NoProfile

NextTopology ==
    \/ CheckValidity
    \/ CheckEmpty
    \/ CheckNull
    \/ GeometryCheckAllCall
    \/ CheckRingValidity
    \/ CheckCoordinatePrecision
    \/ CheckSlivers
    \/ Drop

SpecTopology == InitTopology /\ [][NextTopology]_vars

(***************************************************************************)
(* GeoProfile: the profile of a dataset with attribute columns and,       *)
(* possibly, a CRS.  The constructor copies the frame and runs the         *)
(* analyses; the properties and methods read the stored results.  Of a     *)
(* column's statistics the counts are kept (not dtype, mean, top values).  *)
(***************************************************************************)
\* Most rows of a profiled dataset.
MaxRows == 2

\* A missing cell (None / NaN), the other cell values, and the names of the
\* attribute columns a dataset may have.
NullCell == [value |-> "NaN"]
CellValues == {NullCell, [value |-> "a"]}
ColumnNames == {"name", "value"}
\* gdf.crs: None, or a CRS.
NoCRS == "None"
CRSValues == {NoCRS, "EPSG:4326"}

ProfileUniverse == {NullGeom, EmptyPolygon, SquareA, Bowtie}

\* A GeoDataFrame with geometry column "geometry", attribute columns attrs
\* and a CRS.
Dataset(gs, attrs, crs) ==
    [geometry_name |-> "geometry", index |-> RangeIndex(Len(gs)),
     columns |-> ("geometry" :> gs) @@ attrs, crs |-> crs]

Datasets ==
    UNION {{Dataset(gs, attrs, crs) :
               gs \in [1..n -> ProfileUniverse],
               attrs \in UNION {[names -> [1..n -> CellValues]] : names \in SUBSET ColumnNames},
               crs \in CRSValues} : n \in 0..MaxRows}

\* series.isnull()
IsNullCell(v) == v = NullCell \/ v = NullGeom

\* AttributeProfiler.__init__: self._attr_cols
AttrCols(f) == DOMAIN f.columns \ {f.geometry_name}

\* _profile_column
ProfileColumn(f, col) ==
    LET series == f.columns[col]
        nulls == {i \in DOMAIN series : IsNullCell(series[i])}
    IN  [name |-> col,
         null_count |-> Cardinality(nulls),
         non_null_count |-> Len(series) - Cardinality(nulls),
         unique_count |-> Cardinality({series[i] : i \in DOMAIN series \ nulls})]

\* The sum of null_count over the columns in cols.
RECURSIVE TotalNulls(_, _)
TotalNulls(column_stats, cols) ==
    IF cols = {} THEN 0
    ELSE LET col == CHOOSE c \in cols : TRUE
         IN  column_stats[col].null_count + TotalNulls(column_stats, cols \ {col})

\* AttributeProfiler.profile_all
profile_all(f) ==
    LET column_stats == [col \in AttrCols(f) |-> ProfileColumn(f, col)]
    IN  [column_stats |-> column_stats,
         total_nulls |-> TotalNulls(column_stats, AttrCols(f))]

\* The counting loop of SpatialAnalyzer._dominant_geometry_type: the null
\* geometries are passed over.
RECURSIVE SpatialTypeLoop(_, _, _)
SpatialTypeLoop(geoms, i, types) ==
    IF i > Len(geoms) THEN types
    ELSE IF ~is_null(geoms[i])
    THEN LET gtype == geoms[i].geom_type
         IN  SpatialTypeLoop(geoms, i + 1, DictSet(types, gtype, DictGet(types, gtype, 0) + 1))
    ELSE SpatialTypeLoop(geoms, i + 1, types)

\* _dominant_geometry_type that keeps the last of the types that tie.
dominant_geometry_type_last(f) ==
    IF NumRows(f) = 0 THEN "Unknown"
    ELSE LET types == SpatialTypeLoop(Geometry(f), 1, <<>>)
         IN  IF types = <<>> THEN "Unknown" ELSE MaxKeyLast(types)

\* SpatialAnalyzer._dominant_geometry_type
dominant_geometry_type(f) ==
    IF NumRows(f) = 0 THEN "Unknown"
    ELSE LET types == SpatialTypeLoop(Geometry(f), 1, <<>>)
         IN  IF types = <<>> THEN "Unknown" ELSE MaxKey(types)

\* SpatialAnalyzer.analyze.  Of its results the ones the profile reads are
\* kept: whether a CRS is defined and the dominant geometry type (not the
\* bounds and the area and length statistics).
analyze(f) ==
    [crs_defined |-> f.crs # NoCRS,
     geometry_type |-> dominant_geometry_type(f)]

\* results.get(key, default) on a results dictionary.
DictGetRecord(results, key, default) ==
    IF key \in DOMAIN results THEN results[key] ELSE default

\* GeoProfile.__init__ on a GeoDataFrame: the analyses run on a copy.
GeoProfile(data) ==
    [gdf |-> data,
     geometry_results |-> GeometryCheckAll(data),
     attribute_results |-> profile_all(data),
     spatial_results |-> analyze(data)]

\* GeoProfile.geometry_type
geometry_type(p) == p.spatial_results.geometry_type

feature_count(p) == NumRows(p.gdf)
column_count(p) == Cardinality(DOMAIN p.gdf.columns) - 1
crs(p) == IF p.gdf.crs # NoCRS THEN p.gdf.crs ELSE NoCRS

\* The score with the feature count and the cell count as divisors, however
\* small they are.
quality_score_unguarded(p) ==
    LET total == feature_count(p)
        cells == feature_count(p) * column_count(p)
        den == total * cells
        num == 40 * p.geometry_results.valid_count * cells
               + 30 * (cells - p.attribute_results.total_nulls) * total
               + (IF crs(p) # NoCRS THEN 15 * den ELSE 0)
               + 15 * (total - p.geometry_results.empty_count) * cells
    IN  <<Min(num, 100 * den), den>>

\* The score without the test of the cell count before the division.
quality_score_zero_cells(p) ==
    LET total == IF feature_count(p) > 0 THEN feature_count(p) ELSE 1
        cells == IF column_count(p) > 0 THEN feature_count(p) * column_count(p) ELSE 1
        den == total * cells
        num == 40 * p.geometry_results.valid_count * cells
               + 30 * (cells - p.attribute_results.total_nulls) * total
               + (IF crs(p) # NoCRS THEN 15 * den ELSE 0)
               + 15 * (total - p.geometry_results.empty_count) * cells
    IN  <<Min(num, 100 * den), den>>

\* _compute_quality_score.  The score is a quotient of whole numbers, kept
\* as the pair <<numerator, denominator>>: the four terms brought to the
\* denominator total * cells, and min(score, 100.0) taken on it.
quality_score(p) ==
    LET total == IF feature_count(p) > 0 THEN feature_count(p) ELSE 1
        valid == p.geometry_results.valid_count
        total_cells == IF column_count(p) > 0 THEN feature_count(p) * column_count(p) ELSE 1
        nulls == p.attribute_results.total_nulls
        \* completeness = 1 - nulls / total_cells if total_cells > 0 else 1
        complete == IF total_cells > 0 THEN total_cells - nulls ELSE 1
        cells == IF total_cells > 0 THEN total_cells ELSE 1
        empty == p.geometry_results.empty_count
        den == total * cells
        num == 40 * valid * cells
               + 30 * complete * total
               + (IF crs(p) # NoCRS THEN 15 * den ELSE 0)
               + 15 * (total - empty) * cells
    IN  <<Min(num, 100 * den), den>>

\* What a call gives its caller: a value, or the exception it raised.
Returned(value) == [raised |-> "None", value |-> value]
Raised(exception) == [raised |-> exception, value |-> <<>>]

\* column=None
NoColumn == "None"

\* GeoProfile.attribute_stats that answers an unknown column with an empty
\* frame.
attribute_stats_default(p, column) ==
    LET stats == p.attribute_results.column_stats
    IN  IF column # NoColumn
        THEN IF column \in DOMAIN stats THEN Returned(<<stats[column]>>) ELSE Returned(<<>>)
        ELSE Returned(stats)

\* GeoProfile.attribute_stats
attribute_stats(p, column) ==
    LET stats == p.attribute_results.column_stats
    IN  IF column # NoColumn
        THEN IF column \in DOMAIN stats THEN Returned(<<stats[column]>>)
             ELSE Raised("ValueError")
        ELSE Returned(stats)

\* AttributeProfiler.get_column_profile, of the profiler of the profile.
get_column_profile(p, col) ==
    IF col \notin AttrCols(p.gdf) THEN Raised("ValueError")
    ELSE Returned(ProfileColumn(p.gdf, col))

\* A percentage is the quotient of a pair <<numerator, divisor>>, divisor > 0.
PctGt(pct, t) == pct[1] > t * pct[2]
PctLt(pct, t) == pct[1] < t * pct[2]

\* The row "Attribute Completeness" of quality_checks.
CompletenessRow(p) ==
    LET nulls == DictGetRecord(p.attribute_results, "total_nulls", 0)
        total_cells == IF column_count(p) > 0 THEN feature_count(p) * column_count(p) ELSE 1
        null_pct == IF total_cells > 0 THEN <<nulls * 100, total_cells>> ELSE <<0, 1>>
        severity == IF PctGt(null_pct, 20) THEN "High"
                    ELSE IF PctGt(null_pct, 5) THEN "Medium"
                    ELSE IF PctGt(null_pct, 0) THEN "Low"
                    ELSE "None"
    IN  [Check |-> "Attribute Completeness",
         Status |-> IF PctLt(null_pct, 5) THEN "PASS"
                    ELSE IF PctLt(null_pct, 20) THEN "WARN" ELSE "FAIL",
         Count |-> nulls,
         Severity |-> severity]

\* GeoProfile.quality_checks: the rows of the table in order, each with its
\* columns Check, Status, Count and Severity (not the text of Details).
quality_checks(p) ==
    LET invalid == DictGetRecord(p.geometry_results, "invalid_count", 0)
        empty == DictGetRecord(p.geometry_results, "empty_count", 0)
        dups == DictGetRecord(p.geometry_results, "duplicate_count", 0)
        has_crs == crs(p) # NoCRS
        mixed == DictGetRecord(p.geometry_results, "mixed_types", FALSE)
    IN  <<[Check |-> "Geometry Validity",
           Status |-> IF invalid = 0 THEN "PASS" ELSE "FAIL",
           Count |-> invalid,
           Severity |-> IF invalid > 0 THEN "High" ELSE "None"],
          [Check |-> "Empty Geometries",
           Status |-> IF empty = 0 THEN "PASS" ELSE "WARN",
           Count |-> empty,
           Severity |-> IF empty > 0 THEN "Medium" ELSE "None"],
          [Check |-> "Duplicate Geometries",
           Status |-> IF dups = 0 THEN "PASS" ELSE "WARN",
           Count |-> dups,
           Severity |-> IF dups > 0 THEN "Medium" ELSE "None"],
          [Check |-> "CRS Defined",
           Status |-> IF has_crs THEN "PASS" ELSE "FAIL",
           Count |-> IF has_crs THEN 1 ELSE 0,
           Severity |-> IF ~has_crs THEN "High" ELSE "None"],
          CompletenessRow(p),
          [Check |-> "Homogeneous Geometry Types",
           Status |-> IF ~mixed THEN "PASS" ELSE "WARN",
           Count |-> Len(DictGetRecord(p.geometry_results, "geometry_types", <<>>)),
           Severity |-> IF mixed THEN "Low" ELSE "None"]>>

\* GeoProfile.summary: the dictionary it returns.  The score is kept as the
\* quotient it is (not rounded); name, source and bounds are left out.
summary(p) ==
    [features |-> feature_count(p),
     columns |-> column_count(p),
     geometry_type |-> geometry_type(p),
     crs |-> crs(p),
     quality_score |-> quality_score(p),
     geometry_checks |->
        [valid |-> DictGetRecord(p.geometry_results, "valid_count", 0),
         invalid |-> DictGetRecord(p.geometry_results, "invalid_count", 0),
         empty |-> DictGetRecord(p.geometry_results, "empty_count", 0),
         duplicates |-> DictGetRecord(p.geometry_results, "duplicate_count", 0)]]

\* SpatialAnalyzer.geometry_stats: one row per feature, with the label, the
\* type and the two flags (not the measurements).
geometry_stats(p) ==
    [i \in 1..NumRows(p.gdf) |->
        LET geom == p.gdf.columns["geometry"][i]
        IN  IF is_null(geom) \/ is_empty(geom)
            THEN [index |-> p.gdf.index[i], geom_type |-> "None",
                  is_valid |-> FALSE, is_empty |-> TRUE]
            ELSE [index |-> p.gdf.index[i], geom_type |-> geom.geom_type,
                  is_valid |-> is_valid(geom), is_empty |-> FALSE]]

\* The labels of the rows a layer of the map draws: the rows among rows
\* whose geometry is neither null nor empty.
LayerRows(f, rows) ==
    {f.index[i] : i \in {k \in rows : ~is_null(Geometry(f)[k]) /\ ~is_empty(Geometry(f)[k])}}

\* GeoProfile.show_map and MapVisualizer.create_map: the map is the pair of
\* its layers, the features drawn as valid and those drawn as issues;
\* without folium the call raises.
show_map(p, has_folium, highlight_issues) ==
    LET issue_indices ==
            IF highlight_issues
            THEN Range(DictGetRecord(p.geometry_results, "invalid_indices", <<>>))
                 \cup Range(DictGetRecord(p.geometry_results, "empty_indices", <<>>))
            ELSE {}
        rows == DOMAIN p.gdf.index
    IN  IF ~has_folium THEN Raised("ImportError")
        ELSE IF NumRows(p.gdf) = 0 THEN Returned([valid |-> {}, issues |-> {}])
        ELSE Returned(
               [valid |-> LayerRows(p.gdf, {k \in rows : p.gdf.index[k] \notin issue_indices}),
                issues |-> LayerRows(p.gdf, {k \in rows : p.gdf.index[k] \in issue_indices})])

\* GeoProfile.to_html and ReportGenerator.generate: the values the template
\* is rendered with; topology is a result of TopologyChecker.check_all
\* on the profile's frame.  A report that cannot be written raises.
to_html(p, topology, writable) ==
    IF ~writable THEN Raised("OSError")
    ELSE Returned(
           [features |-> feature_count(p),
            columns |-> column_count(p),
            geometry_type |-> geometry_type(p),
            crs |-> crs(p),
            quality_score |-> quality_score(p),
            quality_checks |-> quality_checks(p),
            column_stats |-> DictGetRecord(p.attribute_results, "column_stats", <<>>),
            geometry_type_dist |-> DictGetRecord(p.geometry_results, "geometry_types", <<>>),
            crs_info |-> [crs_defined |-> p.spatial_results.crs_defined],
            topology |-> topology])

\* The profile after the caller has changed the frame the profile was
\* built from, had the profile kept the caller's frame itself.
AfterCallerEditAliased(p, edited) == [p EXCEPT !.gdf = edited]

\* The profile after the caller has changed the frame the profile was
\* built from: the profile holds data.copy(), so nothing of it changes.
AfterCallerEdit(p, edited) == p

\* The column names asked for: the attribute columns a dataset may have,
\* the geometry column, and a name no dataset has.
RequestedColumns == ColumnNames \cup {"geometry", "missing"}

InitProfile ==
    /\ gdf \in Datasets
    /\ ret = NoCall
    /\ profile = NoProfile

\* gp = GeoProfile(gdf)
NewGeoProfile ==
    /\ profile = NoProfile
    /\ profile' = GeoProfile(gdf)
    /\ UNCHANGED <<gdf, ret>>

\* gp.quality_score
QualityScore ==
    /\ profile # NoProfile
    /\ ret = NoCall
    /\ ret' = Call("quality_score", profile, 0, quality_score(profile), 0)
    /\ UNCHANGED <<gdf, profile>>

\* gp.quality_checks()
QualityChecks ==
    /\ profile # NoProfile
    /\ ret = NoCall
    /\ ret' = Call("quality_checks", profile, 0, quality_checks(profile), 0)
    /\ UNCHANGED <<gdf, profile>>

\* gp.summary()
Summary ==
    /\ profile # NoProfile
    /\ ret = NoCall
    /\ ret' = Call("summary", profile, 0, summary(profile), 0)
    /\ UNCHANGED <<gdf, profile>>

\* gp.geometry_stats()
GeometryStats ==
    /\ profile # NoProfile
    /\ ret = NoCall
    /\ ret' = Call("geometry_stats", profile, 0, geometry_stats(profile), 0)
    /\ UNCHANGED <<gdf, profile>>

\* gp.show_map(highlight_issues=...), with folium installed or not.
ShowMap ==
    /\ profile # NoProfile
    /\ ret = NoCall
    /\ \E has_folium \in BOOLEAN : \E highlight_issues \in BOOLEAN :
          ret' = Call("show_map", profile, highlight_issues,
                      show_map(profile, has_folium, highlight_issues), 0)
    /\ UNCHANGED <<gdf, profile>>

\* gp.to_html(path), the path writable or not.
ToHtml ==
    /\ profile # NoProfile
    /\ ret = NoCall
    /\ \E writable \in BOOLEAN :
          \E topology \in TopologyCheckAll(profile.gdf, DefaultMaxFeatures) :
              ret' = Call("to_html", profile, writable, to_html(profile, topology, writable), 0)
    /\ UNCHANGED <<gdf, profile>>

\* gp.attribute_stats(column)
AttributeStats ==
    /\ profile # NoProfile
    /\ ret = NoCall
    /\ \E column \in RequestedColumns \cup {NoColumn} :
          ret' = Call("attribute_stats", profile, column, attribute_stats(profile, column), 0)
    /\ UNCHANGED <<gdf, profile>>

\* gp._attribute_profiler.get_column_profile(col)
GetColumnProfile ==
    /\ profile # NoProfile
    /\ ret = NoCall
    /\ \E col \in RequestedColumns :
          ret' = Call("get_column_profile", profile, col, get_column_profile(profile, col), 0)
    /\ UNCHANGED <<gdf, profile>>

NextProfile ==
    \/ NewGeoProfile
    \/ QualityScore
    \/ AttributeStats
    \/ GetColumnProfile
    \/ Drop

SpecProfile == InitProfile /\ [][NextProfile]_vars

(***************************************************************************)
(* Faults.  A shapely operation may raise on a geometry (a GEOS exception). *)
(* The features, or pairs of features, on which the operation a check is    *)
(* made of raises are chosen by the environment: faults is a set of         *)
(* positions (from 1), or of pairs of positions for the overlap scan.  The  *)
(* operations are explain_validity in check_validity, g.wkb in              *)
(* check_duplicates, and the statements inside the try block of each        *)
(* TopologyChecker loop.                                                    *)
(***************************************************************************)
\* Most features (or pairs) a call faults on.
MaxFaults == 1

FaultUniverse == {NullGeom, SquareA, SquareCW, Bowtie, Sliver}

FaultGeomSeqs == UNION {[1..n -> FaultUniverse] : n \in 0..MaxFeatures}

FaultSets(S) == {F \in SUBSET S : Cardinality(F) <= MaxFaults}

\* The pairs (idx, other_idx) the overlap scan can test.
PositionPairs(f) == {ij \in (DOMAIN Geometry(f)) \X (DOMAIN Geometry(f)) : ij[1] < ij[2]}

\* The loop of check_validity.  No statement of it is inside a try block:
\* an exception of explain_validity ends the call.
RECURSIVE ValidityLoopFaults(_, _, _, _, _)
ValidityLoopFaults(geoms, i, invalid_indices, invalid_reasons, faults) ==
    IF i > Len(geoms) THEN Returned(<<invalid_indices, invalid_reasons>>)
    ELSE LET geom == geoms[i] IN
         IF is_null(geom) \/ is_empty(geom)
         THEN ValidityLoopFaults(geoms, i + 1, invalid_indices, invalid_reasons, faults)
         ELSE IF ~is_valid(geom)
         THEN IF i \in faults THEN Raised("Exception")
              ELSE ValidityLoopFaults(geoms, i + 1, Append(invalid_indices, i - 1),
                                      Append(invalid_reasons, <<i - 1, explain_validity(geom)>>),
                                      faults)
         ELSE ValidityLoopFaults(geoms, i + 1, invalid_indices, invalid_reasons, faults)

check_validity_faults(f, faults) ==
    LET r == ValidityLoopFaults(Geometry(f), 1, <<>>, <<>>, faults)
    IN  IF r.raised # "None" THEN r
        ELSE Returned([valid_count |-> NumRows(f) - Len(r.value[1]),
                       invalid_count |-> Len(r.value[1]),
                       invalid_indices |-> r.value[1],
                       invalid_reasons |-> r.value[2]])

\* check_duplicates.  The encoding of every feature and the comparison are
\* inside one try block: an exception of g.wkb for any feature leaves the
\* block, and the call returns no duplicates.
check_duplicates_faults(f, faults) ==
    IF NumRows(f) = 0 THEN [duplicate_count |-> 0, duplicate_indices |-> <<>>]
    ELSE IF \E i \in faults \cap DOMAIN Geometry(f) :
                ~is_null(Geometry(f)[i]) /\ ~is_empty(Geometry(f)[i])
    THEN [duplicate_count |-> 0, duplicate_indices |-> <<>>]
    ELSE LET duplicated_mask == duplicated(wkb_values(f), "False")
             first_mask == duplicated(wkb_values(f), "first")
         IN  [duplicate_count |-> Cardinality({i \in DOMAIN first_mask : first_mask[i]}),
              duplicate_indices |-> Masked(f.index, duplicated_mask, 1)]

\* The inner loop of check_self_overlaps: an exception of the intersection
\* of a pair is caught, and the loop goes on with the next candidate.
OverlapHitsFaults(geoms, idx, faults) ==
    {other_idx \in OverlapHits(geoms, idx) : <<idx, other_idx>> \notin faults}

RECURSIVE ScanFromFaults(_, _, _)
ScanFromFaults(geoms, idx, faults) ==
    IF idx > Len(geoms) THEN {<<>>}
    ELSE {[k \in DOMAIN ord |-> <<idx - 1, ord[k] - 1>>] \o rest :
             ord \in Orderings(OverlapHitsFaults(geoms, idx, faults)),
             rest \in ScanFromFaults(geoms, idx + 1, faults)}

check_self_overlaps_faults(f, faults) ==
    IF ~FirstNonNullPolygonal(Geometry(f), 1)
    THEN {[self_overlap_count |-> 0, self_overlap_pairs |-> <<>>]}
    ELSE {[self_overlap_count |-> Len(pairs), self_overlap_pairs |-> pairs] :
             pairs \in ScanFromFaults(Geometry(f), 1, faults)}

\* The loop of check_ring_validity: an exception inside the try block of a
\* feature is caught, and the loop goes on with the next feature.
RECURSIVE RingLoopFaults(_, _, _, _)
RingLoopFaults(geoms, i, bad_indices, faults) ==
    IF i > Len(geoms) THEN {bad_indices}
    ELSE LET geom == geoms[i] IN
         IF is_null(geom) \/ is_empty(geom) THEN RingLoopFaults(geoms, i + 1, bad_indices, faults)
         ELSE IF ~IsPolygonal(geom) THEN RingLoopFaults(geoms, i + 1, bad_indices, faults)
         ELSE IF i \in faults THEN RingLoopFaults(geoms, i + 1, bad_indices, faults)
         ELSE UNION {RingLoopFaults(geoms, i + 1,
                                    IF bad THEN Append(bad_indices, i - 1) ELSE bad_indices,
                                    faults) :
                        bad \in AnyBadExterior(geom.parts, 1)}

check_ring_validity_faults(f, faults) ==
    {[bad_ring_count |-> Len(bad_indices), bad_ring_indices |-> bad_indices] :
        bad_indices \in RingLoopFaults(Geometry(f), 1, <<>>, faults)}

\* The loop of check_coordinate_precision: an exception while the
\* coordinates of a feature are sampled is caught.
RECURSIVE PrecisionLoopFaults(_, _, _, _, _, _)
PrecisionLoopFaults(geoms, i, max_decimals, excessive_indices, sample_coords, faults) ==
    IF i > Len(geoms) THEN <<excessive_indices, sample_coords>>
    ELSE LET geom == geoms[i] IN
         IF is_null(geom) \/ is_empty(geom) \/ i \in faults
         THEN PrecisionLoopFaults(geoms, i + 1, max_decimals, excessive_indices,
                                  sample_coords, faults)
         ELSE LET hit == FirstExcessive(ExtractSampleCoords(geom, SampleN), 1, max_decimals)
              IN  IF hit = <<>>
                  THEN PrecisionLoopFaults(geoms, i + 1, max_decimals, excessive_indices,
                                           sample_coords, faults)
                  ELSE PrecisionLoopFaults(geoms, i + 1, max_decimals,
                                           Append(excessive_indices, i - 1),
                                           IF Len(sample_coords) < MaxSampleCoords
                                           THEN Append(sample_coords,
                                                       <<i - 1, hit[1][1], hit[1][2]>>)
                                           ELSE sample_coords,
                                           faults)

check_coordinate_precision_faults(f, max_decimals, faults) ==
    LET r == PrecisionLoopFaults(Geometry(f), 1, max_decimals, <<>>, <<>>, faults)
    IN  [excessive_precision_count |-> Len(r[1]),
         excessive_precision_indices |-> r[1],
         precision_sample_coords |-> r[2]]

\* The loop of check_slivers that leaves the loop at the first exception.
RECURSIVE SliverLoopFaultsBreak(_, _, _, _, _)
SliverLoopFaultsBreak(geoms, i, threshold_pct, sliver_indices, faults) ==
    IF i > Len(geoms) THEN sliver_indices
    ELSE LET geom == geoms[i] IN
         IF is_null(geom) \/ is_empty(geom)
         THEN SliverLoopFaultsBreak(geoms, i + 1, threshold_pct, sliver_indices, faults)
         ELSE IF ~IsPolygonal(geom)
         THEN SliverLoopFaultsBreak(geoms, i + 1, threshold_pct, sliver_indices, faults)
         ELSE IF i \in faults THEN sliver_indices
         ELSE IF Length(geom) > 0 /\ IsSliver(Area2(geom), Length(geom), threshold_pct)
         THEN SliverLoopFaultsBreak(geoms, i + 1, threshold_pct,
                                    Append(sliver_indices, i - 1), faults)
         ELSE SliverLoopFaultsBreak(geoms, i + 1, threshold_pct, sliver_indices, faults)

\* The loop of check_slivers: an exception of geom.area or geom.length is
\* caught, and the loop goes on with the next feature.
RECURSIVE SliverLoopFaults(_, _, _, _, _)
SliverLoopFaults(geoms, i, threshold_pct, sliver_indices, faults) ==
    IF i > Len(geoms) THEN sliver_indices
    ELSE LET geom == geoms[i] IN
         IF is_null(geom) \/ is_empty(geom)
         THEN SliverLoopFaults(geoms, i + 1, threshold_pct, sliver_indices, faults)
         ELSE IF ~IsPolygonal(geom)
         THEN SliverLoopFaults(geoms, i + 1, threshold_pct, sliver_indices, faults)
         ELSE IF i \in faults
         THEN SliverLoopFaults(geoms, i + 1, threshold_pct, sliver_indices, faults)
         ELSE IF Length(geom) > 0 /\ IsSliver(Area2(geom), Length(geom), threshold_pct)
         THEN SliverLoopFaults(geoms, i + 1, threshold_pct, Append(sliver_indices, i - 1),
                               faults)
         ELSE SliverLoopFaults(geoms, i + 1, threshold_pct, sliver_indices, faults)

check_slivers_faults(f, threshold_pct, faults) ==
    LET sliver_indices == SliverLoopFaults(Geometry(f), 1, threshold_pct, <<>>, faults)
    IN  [sliver_count |-> Len(sliver_indices), sliver_indices |-> sliver_indices]

\* The argument of a call and the faults it met.
Faulty(arg, faults) == [arg |-> arg, faults |-> faults]

InitFaults ==
    /\ \E gs \in FaultGeomSeqs : gdf = Frame("geometry", RangeIndex(Len(gs)), gs)
    /\ ret = NoCall
    /\ profile = NoProfile

CheckValidityFaults ==
    /\ ret = NoCall
    /\ \E faults \in FaultSets(DOMAIN Geometry(gdf)) :
          ret' = Call("check_validity", gdf, Faulty(0, faults),
                      check_validity_faults(gdf, faults), 0)
    /\ UNCHANGED <<gdf, profile>>

CheckDuplicatesFaults ==
    /\ ret = NoCall
    /\ \E faults \in FaultSets(DOMAIN Geometry(gdf)) :
          ret' = Call("check_duplicates", gdf, Faulty(0, faults),
                      check_duplicates_faults(gdf, faults), 0)
    /\ UNCHANGED <<gdf, profile>>

CheckSelfOverlapsFaults ==
    /\ ret = NoCall
    /\ \E faults \in FaultSets(PositionPairs(gdf)) :
          \E o \in check_self_overlaps_faults(gdf, faults) :
              ret' = Call("check_self_overlaps", gdf, Faulty(0, faults), o, 0)
    /\ UNCHANGED <<gdf, profile>>

CheckRingValidityFaults ==
    /\ ret = NoCall
    /\ \E faults \in FaultSets(DOMAIN Geometry(gdf)) :
          \E o \in check_ring_validity_faults(gdf, faults) :
              ret' = Call("check_ring_validity", gdf, Faulty(0, faults), o, 0)
    /\ UNCHANGED <<gdf, profile>>

CheckCoordinatePrecisionFaults ==
    /\ ret = NoCall
    /\ \E faults \in FaultSets(DOMAIN Geometry(gdf)), max_decimals \in {0, DefaultMaxDecimals} :
          ret' = Call("check_coordinate_precision", gdf, Faulty(max_decimals, faults),
                      check_coordinate_precision_faults(gdf, max_decimals, faults), 0)
    /\ UNCHANGED <<gdf, profile>>

CheckSliversFaults ==
    /\ ret = NoCall
    /\ \E faults \in FaultSets(DOMAIN Geometry(gdf)) :
          ret' = Call("check_slivers", gdf, Faulty(DefaultThresholdPct, faults),
                      check_slivers_faults(gdf, DefaultThresholdPct, faults), 0)
    /\ UNCHANGED <<gdf, profile>>

NextFaults ==
    \/ CheckValidityFaults
    \/ CheckDuplicatesFaults
    \/ CheckSelfOverlapsFaults
    \/ CheckRingValidityFaults
    \/ CheckCoordinatePrecisionFaults
    \/ CheckSliversFaults
    \/ Drop

SpecFaults == InitFaults /\ [][NextFaults]_vars

(***************************************************************************)
(* The engine as a whole: both checkers and the profile on one dataset,    *)
(* for datasets of several geometry types, with and without an attribute   *)
(* column, the dataset of no feature included.                             *)
(***************************************************************************)
EngineUniverse == {NullGeom, EmptyPolygon, SquareA, PointP, LineL}

EngineGeomSeqs == UNION {[1..n -> EngineUniverse] : n \in 0..MaxFeatures}

\* No attribute column, or the column "name" with a value in every row.
EngineAttrs(n) == {[names \in {} |-> <<>>], [names \in {"name"} |-> [i \in 1..n |-> [value |-> "a"]]]}

InitEngine ==
    /\ \E gs \in EngineGeomSeqs : \E attrs \in EngineAttrs(Len(gs)) :
          gdf = Dataset(gs, attrs, "EPSG:4326")
    /\ ret = NoCall
    /\ profile = NoProfile

\* gp.geometry_type
GeometryType ==
    /\ profile # NoProfile
    /\ ret = NoCall
    /\ ret' = Call("geometry_type", profile, 0, geometry_type(profile), 0)
    /\ UNCHANGED <<gdf, profile>>

NextEngine ==
    \/ CheckValidity
    \/ CheckEmpty
    \/ CheckNull
    \/ CheckGeometryTypes
    \/ ComputeComplexity
    \/ GeometryCheckAllCall
    \/ CheckDuplicates
    \/ CheckSelfOverlaps
    \/ CheckRingValidity
    \/ CheckCoordinatePrecision
    \/ CheckSlivers
    \/ TopologyCheckAllCall
    \/ NewGeoProfile
    \/ QualityScore
    \/ GeometryType
    \/ Drop

SpecEngine == InitEngine /\ [][NextEngine]_vars

(***************************************************************************)
(* The table of quality checks on datasets of one attribute column whose   *)
(* share of missing cells takes every value k / n for n up to MaxCells.    *)
(***************************************************************************)
MaxCells == 20

\* n point features and the column "name" whose first k cells are missing.
CompletenessDataset(n, k) ==
    Dataset([i \in 1..n |-> PointP],
            [names \in {"name"} |-> [i \in 1..n |-> IF i <= k THEN NullCell ELSE [value |-> "a"]]],
            "EPSG:4326")

InitCompleteness ==
    /\ \E n \in 0..MaxCells : \E k \in 0..n : gdf = CompletenessDataset(n, k)
    /\ ret = NoCall
    /\ profile = NoProfile

NextCompleteness ==
    \/ NewGeoProfile
    \/ QualityChecks
    \/ QualityScore
    \/ Drop

SpecCompleteness == InitCompleteness /\ [][NextCompleteness]_vars

(***************************************************************************)
(* The life of a profile: it is built from the caller's frame, its methods *)
(* are called in any order, and the caller goes on changing the frame.     *)
(***************************************************************************)
LifecycleUniverse == {NullGeom, EmptyPolygon, SquareA, Bowtie}

LifecycleDatasets ==
    UNION {{Dataset(gs, attrs, c) :
               gs \in [1..n -> LifecycleUniverse],
               attrs \in UNION {[names -> [1..n -> CellValues]] : names \in {{}, {"name"}}},
               c \in CRSValues} : n \in 0..MaxRows}

\* data.drop(data.index[-1], inplace=True)
DropLastRow(f) ==
    [f EXCEPT !.index = SubSeq(@, 1, Len(@) - 1),
              !.columns = [c \in DOMAIN @ |-> SubSeq(@[c], 1, Len(@[c]) - 1)]]

\* The frames the caller can turn the frame into with one change: the last
\* row dropped, the CRS set or cleared, a geometry set to None, a new
\* column added.
CallerEditsOf(f) ==
    (IF NumRows(f) > 0 THEN {DropLastRow(f)} ELSE {})
    \cup {[f EXCEPT !.crs = IF @ = NoCRS THEN "EPSG:4326" ELSE NoCRS]}
    \cup {[f EXCEPT !.columns[f.geometry_name][i] = NullGeom] :
             i \in {k \in DOMAIN Geometry(f) : ~is_null(Geometry(f)[k])}}
    \cup (IF "value" \in DOMAIN f.columns THEN {}
          ELSE {[f EXCEPT !.columns = @ @@ ("value" :> [i \in 1..NumRows(f) |-> NullCell])]})

InitLifecycle ==
    /\ gdf \in LifecycleDatasets
    /\ ret = NoCall
    /\ profile = NoProfile

\* The caller changes the frame the profile was built from (once).
CallerEdits ==
    /\ profile # NoProfile
    /\ gdf = profile.gdf
    /\ \E edited \in CallerEditsOf(gdf) :
          /\ gdf' = edited
          /\ profile' = AfterCallerEdit(profile, edited)
    /\ UNCHANGED ret

NextLifecycle ==
    \/ NewGeoProfile
    \/ Summary
    \/ QualityChecks
    \/ QualityScore
    \/ AttributeStats
    \/ GeometryStats
    \/ ShowMap
    \/ ToHtml
    \/ CallerEdits
    \/ Drop

SpecLifecycle == InitLifecycle /\ [][NextLifecycle]_vars

(***************************************************************************)
(* Properties                                                              *)
(***************************************************************************)
\* The Python indices (from 0) of the features of geoms that satisfy P.
Where(geoms, P(_)) == {i - 1 : i \in {k \in DOMAIN geoms : P(geoms[k])}}

NullOrEmpty(g) == is_null(g) \/ is_empty(g)
Invalid(g) == ~is_null(g) /\ ~is_empty(g) /\ ~is_valid(g)

\* C1: check_validity returns valid_count = total_features - invalid_count
\* and invalid_count <= total_features, and every null or empty feature is
\* counted in valid_count.
C1_ValidCount ==
    ret.op = "check_validity" =>
        /\ ret.out.valid_count = NumRows(ret.on) - ret.out.invalid_count
        /\ ret.out.invalid_count <= NumRows(ret.on)
        /\ ret.out.valid_count >= 0
        /\ ret.out.valid_count =
              NumRows(ret.on) - Cardinality(Where(Geometry(ret.on), Invalid))
        /\ ret.out.valid_count >= Cardinality(Where(Geometry(ret.on), NullOrEmpty))

\* check_validity has returned for a store holding a null, an empty and an
\* invalid geometry.
C1_Witness ==
    /\ ret.op = "check_validity"
    /\ \E i \in DOMAIN Geometry(ret.on) : is_null(Geometry(ret.on)[i])
    /\ \E i \in DOMAIN Geometry(ret.on) : ~is_null(Geometry(ret.on)[i]) /\ is_empty(Geometry(ret.on)[i])
    /\ ret.out.invalid_count = 1
    /\ ret.out.valid_count = 2

\* C2: invalid_indices holds exactly the indices of the non-null, non-empty
\* geometries that fail is_valid, each once, and invalid_reasons holds one
\* (index, reason) entry per invalid feature at the position of its index.
C2_InvalidIndices ==
    ret.op = "check_validity" =>
        LET ii == ret.out.invalid_indices
            rr == ret.out.invalid_reasons
        IN  /\ Range(ii) = Where(Geometry(ret.on), Invalid)
            /\ Range(ii) \cap Where(Geometry(ret.on), NullOrEmpty) = {}
            /\ Cardinality(Range(ii)) = Len(ii)
            /\ Len(rr) = Len(ii)
            /\ \A k \in DOMAIN ii :
                  /\ rr[k][1] = ii[k]
                  /\ rr[k][2] = explain_validity(Geometry(ret.on)[ii[k] + 1])

\* check_validity has flagged an invalid geometry that stands after an
\* empty one, in a store that also holds a null one.
C2_Witness ==
    /\ ret.op = "check_validity"
    /\ \E i, j, k \in DOMAIN Geometry(ret.on) :
          /\ i < j
          /\ ~is_null(Geometry(ret.on)[i]) /\ is_empty(Geometry(ret.on)[i])
          /\ Invalid(Geometry(ret.on)[j])
          /\ is_null(Geometry(ret.on)[k])
          /\ ret.out.invalid_indices = <<j - 1>>
          /\ ret.out.invalid_reasons = <<<<j - 1, "Self-intersection">>>>

\* The features that take part in duplicate comparison, and the row label
\* by which check_duplicates names feature i.
Comparable(g) == ~is_null(g) /\ ~is_empty(g)
LabelsWhere(f, P(_)) == {f.index[i] : i \in {k \in DOMAIN Geometry(f) : P(Geometry(f)[k])}}

\* The features of f whose encoding is shared by another comparable feature.
InDuplicateClass(f) ==
    {i \in DOMAIN Geometry(f) :
        /\ Comparable(Geometry(f)[i])
        /\ \E j \in DOMAIN Geometry(f) :
              j # i /\ Comparable(Geometry(f)[j]) /\ wkb(Geometry(f)[j]) = wkb(Geometry(f)[i])}

\* C3: check_duplicates partitions the comparable geometries into classes
\* of equal encoding; duplicate_count is the sum over the classes of
\* (size - 1), that is the number of comparable features less the number of
\* classes, and duplicate_indices names exactly the members of the classes
\* of size >= 2.
C3_DuplicateClasses ==
    ret.op = "check_duplicates" =>
        LET f == ret.on
            comparable == {i \in DOMAIN Geometry(f) : Comparable(Geometry(f)[i])}
            classes == {wkb(Geometry(f)[i]) : i \in comparable}
        IN  /\ ret.out.duplicate_count = Cardinality(comparable) - Cardinality(classes)
            /\ Range(ret.out.duplicate_indices) = {f.index[i] : i \in InDuplicateClass(f)}

\* C4: null and empty geometries never take part in duplicate detection: no
\* null or empty feature is named in duplicate_indices, and a store without
\* a repeated non-empty geometry has duplicate_count 0 and no
\* duplicate_indices.
C4_NullEmptyIncomparable ==
    ret.op = "check_duplicates" =>
        /\ Range(ret.out.duplicate_indices) \cap LabelsWhere(ret.on, NullOrEmpty) = {}
        /\ InDuplicateClass(ret.on) = {} =>
              ret.out.duplicate_count = 0 /\ ret.out.duplicate_indices = <<>>

\* The non-null types that no other non-null type of the store outnumbers.
TypeCount(geoms, t) == Cardinality({i \in DOMAIN geoms : geoms[i].geom_type = t})
MostFrequentTypes(geoms) ==
    {t \in {geoms[i].geom_type : i \in DOMAIN geoms} \ {"None"} :
        \A i \in DOMAIN geoms :
            ~is_null(geoms[i]) => TypeCount(geoms, geoms[i].geom_type) <= TypeCount(geoms, t)}

\* The pairs (i, j), i < j, of non-null, non-empty, valid geometries whose
\* intersection is not empty and has a positive area (Python indices).
OverlappingPairs(geoms) ==
    {ij \in (0..(Len(geoms) - 1)) \X (0..(Len(geoms) - 1)) :
        /\ ij[1] < ij[2]
        /\ \A k \in {ij[1] + 1, ij[2] + 1} :
              ~is_null(geoms[k]) /\ ~is_empty(geoms[k]) /\ is_valid(geoms[k])
        /\ ~intersection(geoms[ij[1] + 1], geoms[ij[2] + 1]).is_empty
        /\ intersection(geoms[ij[1] + 1], geoms[ij[2] + 1]).area > 0}

\* C5: check_self_overlaps scans exactly when the dominant (most frequent
\* non-null) geometry type is polygonal: then it reports the overlapping
\* pairs, and when the dominant type is not polygonal it returns count 0
\* and no pairs.  (Stated for the stores whose dominant type is not
\* decided by a tie between a polygonal and another type.)
C5_ScanIffDominantPolygonal ==
    ret.op = "check_self_overlaps" =>
        LET geoms == Geometry(ret.on)
            top == MostFrequentTypes(geoms)
        IN  /\ (top # {} /\ top \subseteq {"Polygon", "MultiPolygon"}) =>
                  Range(ret.out.self_overlap_pairs) = OverlappingPairs(geoms)
            /\ top \cap {"Polygon", "MultiPolygon"} = {} =>
                  ret.out.self_overlap_count = 0 /\ ret.out.self_overlap_pairs = <<>>

\* C6: when the scan runs, the pair list holds exactly the pairs (i, j),
\* i < j, of non-null, non-empty, valid geometries whose intersection is
\* not empty and has a positive area, each once, and self_overlap_count is
\* the length of the list.
C6_ScanPairs ==
    (ret.op = "check_self_overlaps" /\ FirstNonNullPolygonal(Geometry(ret.on), 1)) =>
        LET pairs == ret.out.self_overlap_pairs
        IN  /\ Range(pairs) = OverlappingPairs(Geometry(ret.on))
            /\ Cardinality(Range(pairs)) = Len(pairs)
            /\ \A k \in DOMAIN pairs : pairs[k][1] < pairs[k][2]
            /\ \A k \in DOMAIN pairs :
                  is_valid(Geometry(ret.on)[pairs[k][1] + 1])
                      /\ is_valid(Geometry(ret.on)[pairs[k][2] + 1])
            /\ ret.out.self_overlap_count = Len(pairs)

\* The scan has run on a store with an overlapping pair, which it reports,
\* and a pair that only touches, which it does not.
C6_Witness ==
    /\ ret.op = "check_self_overlaps"
    /\ FirstNonNullPolygonal(Geometry(ret.on), 1)
    /\ ret.out.self_overlap_count = 1
    /\ \E i, j \in DOMAIN Geometry(ret.on) :
          /\ i < j
          /\ is_valid(Geometry(ret.on)[i]) /\ is_valid(Geometry(ret.on)[j])
          /\ IsPolygonal(Geometry(ret.on)[i]) /\ IsPolygonal(Geometry(ret.on)[j])
          /\ ~is_empty(Geometry(ret.on)[i]) /\ ~is_empty(Geometry(ret.on)[j])
          /\ ~intersection(Geometry(ret.on)[i], Geometry(ret.on)[j]).is_empty
          /\ <<i - 1, j - 1>> \notin Range(ret.out.self_overlap_pairs)

\* C7: TopologyChecker.check_all(max_features) reports the skipped sentinel
\* (self_overlap_count -1, self_overlap_skipped true, no pair list) exactly
\* when the store has more than max_features features; otherwise the scan
\* runs, the count is >= 0 and there is no skipped flag.
C7_SkipSentinel ==
    ret.op = "topology_check_all" =>
        LET skipped == /\ ret.out.self_overlap_count = -1
                       /\ "self_overlap_skipped" \in DOMAIN ret.out
                       /\ ret.out.self_overlap_skipped = TRUE
                       /\ "self_overlap_pairs" \notin DOMAIN ret.out
            scanned == /\ ret.out.self_overlap_count >= 0
                       /\ "self_overlap_skipped" \notin DOMAIN ret.out
                       /\ "self_overlap_pairs" \in DOMAIN ret.out
                       /\ ret.out.self_overlap_count = Len(ret.out.self_overlap_pairs)
        IN  /\ skipped <=> NumRows(ret.on) > ret.param
            /\ scanned <=> NumRows(ret.on) <= ret.param

\* check_all has run the scan on a store of exactly max_features features,
\* none of which overlap.
C7_Witness ==
    /\ ret.op = "topology_check_all"
    /\ NumRows(ret.on) = ret.param
    /\ NumRows(ret.on) > 0
    /\ ret.out.self_overlap_count = 0

\* The store with its geometries reordered: row k holds the geometry that
\* stood at row perm[k].
Reordered(f, perm) ==
    [f EXCEPT !.columns = [c \in DOMAIN f.columns |-> [k \in DOMAIN perm |-> f.columns[c][perm[k]]]]]

Unordered(pairs) == {{pairs[k][1], pairs[k][2]} : k \in DOMAIN pairs}

\* C8: the overlap scan is invariant under reordering of the store: the
\* unordered pairs reported for any reordering are those reported for the
\* store, relabelled.
C8_ReorderInvariant ==
    ret.op = "check_self_overlaps" =>
        \A perm \in Orderings(DOMAIN Geometry(ret.on)) :
            \A o \in check_self_overlaps(Reordered(ret.on, perm)) :
                {{perm[p[1] + 1] - 1, perm[p[2] + 1] - 1} : p \in Range(o.self_overlap_pairs)}
                    = Unordered(ret.out.self_overlap_pairs)

\* C9: fix_invalid returns a store of the same length and order in which
\* every geometry that fails is_valid is replaced by its make_valid result
\* and every other geometry is as it was; every non-null, non-empty
\* geometry of the returned store is valid.
C9_FixInvalid ==
    ret.op = "fix_invalid" =>
        LET before == Geometry(ret.on)
            after == Geometry(ret.out)
        IN  /\ Len(after) = Len(before)
            /\ ret.out.index = ret.on.index
            /\ \A i \in DOMAIN before :
                  after[i] = IF ~is_null(before[i]) /\ ~is_valid(before[i])
                             THEN make_valid(before[i]) ELSE before[i]
            /\ \A i \in DOMAIN after :
                  (~is_null(after[i]) /\ ~is_empty(after[i])) => is_valid(after[i])

\* C10: fix_invalid is idempotent: fix_invalid of a store returned by
\* fix_invalid returns a store equal to it, geometry by geometry.
C10_FixIdempotent ==
    (ret.op = "fix_invalid" /\ ret.repairs >= 2) =>
        /\ Geometry(ret.out) = Geometry(ret.on)
        /\ ret.out = ret.on

\* fix_invalid has been applied to the store that fix_invalid returned for
\* a store with an invalid geometry, which the first call repaired.
C10_Witness ==
    /\ ret.op = "fix_invalid"
    /\ ret.repairs = 2
    /\ \E i \in DOMAIN Geometry(gdf) :
          /\ Invalid(Geometry(gdf)[i])
          /\ Geometry(ret.on)[i] = make_valid(Geometry(gdf)[i])
          /\ Geometry(ret.on)[i] # Geometry(gdf)[i]
          /\ Geometry(ret.out)[i] = Geometry(ret.on)[i]

\* C11: no operation mutates the store it was given.  After every check and
\* after fix_invalid, the store of the checker is the frame it was when the
\* call was made: the same columns, holding the same geometries in the same
\* order, under the same row labels.  The repairs of fix_invalid are in the
\* frame it returned only.
C11_StoreUnchanged ==
    (ret # NoCall /\ ret.repairs <= 1) =>
        /\ gdf = ret.on
        /\ Geometry(gdf) = Geometry(ret.on)

\* fix_invalid has repaired a geometry of the store, and the repair is in
\* the returned frame while the store still holds the invalid geometry.
C11_Witness ==
    /\ ret.op = "fix_invalid"
    /\ ret.repairs = 1
    /\ \E i \in DOMAIN Geometry(ret.on) :
          /\ Invalid(Geometry(ret.on)[i])
          /\ ret.out.columns["geometry"][i] # Geometry(ret.on)[i]
          /\ is_valid(ret.out.columns["geometry"][i])
          /\ Geometry(gdf)[i] = Geometry(ret.on)[i]

\* The names of the geometry types, and the features of each type.
TypeNames == {"Point", "LineString", "Polygon", "MultiPolygon"}
OfType(geoms, t) == {i \in DOMAIN geoms : ~is_null(geoms[i]) /\ geoms[i].geom_type = t}
Nulls(geoms) == {i \in DOMAIN geoms : is_null(geoms[i])}

\* C14: the histogram of check_geometry_types sums to the number of
\* features: the "None" bucket counts the null geometries, the bucket of a
\* type name counts the non-null geometries of that type, empty ones
\* included, and there is no other bucket.
C14_HistogramSums ==
    ret.op = "check_geometry_types" =>
        LET geoms == Geometry(ret.on)
            hist == ret.out.geometry_types
        IN  /\ SumSeq([k \in DOMAIN hist |-> hist[k][2]]) = NumRows(ret.on)
            /\ \A k, l \in DOMAIN hist : hist[k][1] = hist[l][1] => k = l
            /\ Range(DictKeys(hist)) \subseteq TypeNames \cup {"None"}
            /\ DictGet(hist, "None", 0) = Cardinality(Nulls(geoms))
            /\ \A t \in TypeNames : DictGet(hist, t, 0) = Cardinality(OfType(geoms, t))

\* A histogram over a store with a null, an empty and a non-empty geometry.
C14_Witness ==
    /\ ret.op = "check_geometry_types"
    /\ \E i, j, k \in DOMAIN Geometry(ret.on) :
          /\ is_null(Geometry(ret.on)[i])
          /\ ~is_null(Geometry(ret.on)[j]) /\ is_empty(Geometry(ret.on)[j])
          /\ ~is_null(Geometry(ret.on)[k]) /\ ~is_empty(Geometry(ret.on)[k])
    /\ DictGet(ret.out.geometry_types, "None", 0) = 1
    /\ DictGet(ret.out.geometry_types, "Polygon", 0) >= 1

\* The non-null types of greatest count, and the position of the first
\* feature of a type.
PresentTypes(geoms) == {t \in TypeNames : OfType(geoms, t) # {}}
TopTypes(geoms) ==
    {t \in PresentTypes(geoms) :
        \A u \in PresentTypes(geoms) :
            Cardinality(OfType(geoms, u)) <= Cardinality(OfType(geoms, t))}
FirstOf(geoms, t) == CHOOSE i \in OfType(geoms, t) : \A j \in OfType(geoms, t) : i <= j

\* C15: the dominant type is the non-null type of greatest count, among
\* several of them the one whose first feature comes first in the store,
\* and "Unknown" when the store has no non-null geometry.
C15_DominantType ==
    ret.op = "check_geometry_types" =>
        LET geoms == Geometry(ret.on)
            dominant == ret.out.geometry_type
        IN  /\ dominant # "None"
            /\ PresentTypes(geoms) = {} <=> dominant = "Unknown"
            /\ PresentTypes(geoms) # {} =>
                  /\ dominant \in TopTypes(geoms)
                  /\ \A t \in TopTypes(geoms) : FirstOf(geoms, dominant) <= FirstOf(geoms, t)

\* Two types tie at the greatest count, the store has as many null
\* geometries, and the type chosen is not the one counted last.
C15_Witness ==
    /\ ret.op = "check_geometry_types"
    /\ Cardinality(TopTypes(Geometry(ret.on))) = 2
    /\ Nulls(Geometry(ret.on)) # {}
    /\ is_null(Geometry(ret.on)[1])
    /\ ret.out.geometry_type = Geometry(ret.on)[2].geom_type

\* C16: mixed_types is true exactly when the non-null geometries of the
\* store have more than one type name.
C16_MixedTypes ==
    ret.op = "check_geometry_types" =>
        (ret.out.mixed_types <=> Cardinality(PresentTypes(Geometry(ret.on))) > 1)

\* A store of polygons and null geometries is not mixed.
C16_Witness ==
    /\ ret.op = "check_geometry_types"
    /\ Nulls(Geometry(ret.on)) # {}
    /\ PresentTypes(Geometry(ret.on)) = {"Polygon"}
    /\ ret.out.mixed_types = FALSE

\* The exterior rings of a geometry, and a ring traversed clockwise: its
\* signed area is negative.
Exteriors(g) == {g.parts[k][1] : k \in DOMAIN g.parts}
Clockwise(ring) == Shoelace2(ring, 1) < 0

\* C17: check_ring_validity flags a feature exactly when it is a non-null,
\* non-empty polygon or multi-polygon with a clockwise exterior ring, and
\* lists a flagged feature once.
C17_RingValidity ==
    ret.op = "check_ring_validity" =>
        LET geoms == Geometry(ret.on)
            bad == ret.out.bad_ring_indices
        IN  /\ \A k, l \in DOMAIN bad : bad[k] = bad[l] => k = l
            /\ ret.out.bad_ring_count = Len(bad)
            /\ \A i \in DOMAIN geoms :
                  (i - 1) \in Range(bad) <=>
                      /\ ~is_null(geoms[i]) /\ ~is_empty(geoms[i])
                      /\ IsPolygonal(geoms[i])
                      /\ \E ring \in Exteriors(geoms[i]) : Clockwise(ring)

\* C18: check_slivers flags a feature exactly when it is a non-null,
\* non-empty polygonal geometry with a perimeter above 0 whose compactness
\* 4 pi area / perimeter^2 is below the threshold; a polygon of perimeter 0
\* is not flagged.
C18_Slivers ==
    ret.op = "check_slivers" =>
        LET geoms == Geometry(ret.on)
            flagged == ret.out.sliver_indices
        IN  /\ ret.out.sliver_count = Len(flagged)
            /\ \A k, l \in DOMAIN flagged : flagged[k] = flagged[l] => k = l
            /\ \A i \in DOMAIN geoms :
                  (i - 1) \in Range(flagged) <=>
                      /\ ~is_null(geoms[i]) /\ ~is_empty(geoms[i])
                      /\ IsPolygonal(geoms[i])
                      /\ Length(geoms[i]) > 0
                      /\ Pi800 * Area2(geoms[i])
                            < 4 * ret.param * Length(geoms[i]) * Length(geoms[i])

\* A store with the thin rectangle, a square and the polygon of perimeter
\* 0, of which the thin rectangle alone is flagged.
C18_Witness ==
    /\ ret.op = "check_slivers"
    /\ ret.param = DefaultThresholdPct
    /\ \E i, j, k \in DOMAIN Geometry(ret.on) :
          /\ Geometry(ret.on)[i] = Sliver
          /\ Geometry(ret.on)[j] = SquareA
          /\ Geometry(ret.on)[k] = Speck
          /\ Length(Speck) = 0
          /\ ret.out.sliver_indices = <<i - 1>>

\* The decimal digits of a coordinate, and the coordinates of a geometry
\* that come first in traversal order.
DecimalDigits(c) == DecimalsFrom(Abs(c), FracDigits)
FirstCoords(g) == SubSeq(Coords(g), 1, Min(SampleN, Len(Coords(g))))
Excessive(p, max_decimals) ==
    DecimalDigits(p[1]) > max_decimals \/ DecimalDigits(p[2]) > max_decimals

\* C19: check_coordinate_precision flags a feature, once, exactly when it
\* is non-null and non-empty and one of its first 3 coordinates has more
\* decimal digits than max_decimals on either axis; it keeps at most 5
\* example coordinates, each one a sampled coordinate of a flagged feature.
C19_Precision ==
    ret.op = "check_coordinate_precision" =>
        LET geoms == Geometry(ret.on)
            flagged == ret.out.excessive_precision_indices
            examples == ret.out.precision_sample_coords
        IN  /\ ret.out.excessive_precision_count = Len(flagged)
            /\ \A k, l \in DOMAIN flagged : flagged[k] = flagged[l] => k = l
            /\ \A i \in DOMAIN geoms :
                  (i - 1) \in Range(flagged) <=>
                      /\ ~is_null(geoms[i]) /\ ~is_empty(geoms[i])
                      /\ \E p \in Range(FirstCoords(geoms[i])) : Excessive(p, ret.param)
            /\ Len(examples) <= MaxSampleCoords
            /\ \A k \in DOMAIN examples :
                  /\ examples[k][1] \in Range(flagged)
                  /\ <<examples[k][2], examples[k][3]>>
                        \in Range(FirstCoords(geoms[examples[k][1] + 1]))

\* C12: the quality score of every dataset is within [0, 100].
C12_ScoreRange ==
    ret.op = "quality_score" =>
        /\ ret.out[2] > 0
        /\ 0 <= ret.out[1]
        /\ ret.out[1] <= 100 * ret.out[2]

\* A score strictly between the ends of the range, of a dataset with an
\* invalid geometry, an empty one, a null attribute cell and no CRS.
C12_Witness ==
    /\ ret.op = "quality_score"
    /\ 0 < ret.out[1] /\ ret.out[1] < 100 * ret.out[2]
    /\ ret.on.gdf.crs = NoCRS
    /\ ret.on.geometry_results.invalid_count > 0
    /\ ret.on.geometry_results.empty_count > 0
    /\ ret.on.attribute_results.total_nulls > 0

\* C13: the quality score is 40 valid/total + 30 (1 - nulls/cells)
\* + 15 [CRS defined] + 15 (total - empty)/total, on the counts of the
\* geometry check; a dataset with no attribute cell is complete.  Without a
\* CRS the score is at most 85; with a CRS, no invalid or empty geometry
\* and no null attribute cell it is 100.
C13_ScoreFormula ==
    ret.op = "quality_score" =>
        LET p == ret.on
            num == ret.out[1]
            den == ret.out[2]
            total == NumRows(p.gdf)
            columns == Cardinality(DOMAIN p.gdf.columns \ {p.gdf.geometry_name})
            cells == IF columns > 0 THEN total * columns ELSE 1
            nulls == p.attribute_results.total_nulls
            valid == p.geometry_results.valid_count
            empty == p.geometry_results.empty_count
            defined == IF p.gdf.crs # NoCRS THEN 1 ELSE 0
        IN  /\ total > 0 =>
                  num * (total * cells)
                      = den * (40 * valid * cells + 30 * (cells - nulls) * total
                               + 15 * defined * total * cells + 15 * (total - empty) * cells)
            /\ p.gdf.crs = NoCRS => num <= 85 * den
            /\ (/\ p.gdf.crs # NoCRS
                /\ p.geometry_results.invalid_count = 0
                /\ empty = 0
                /\ nulls = 0) => num = 100 * den

\* C20: asking attribute_stats or get_column_profile for a column that is
\* not an attribute column of the dataset raises ValueError and returns
\* nothing; asking for an attribute column returns its statistics; either
\* way the profile is what it was before the call.
C20_UnknownColumn ==
    ret.op \in {"attribute_stats", "get_column_profile"} =>
        LET attribute_columns == DOMAIN ret.on.gdf.columns \ {ret.on.gdf.geometry_name}
        IN  /\ (ret.param # NoColumn /\ ret.param \notin attribute_columns) =>
                  ret.out = [raised |-> "ValueError", value |-> <<>>]
            /\ ret.param \in attribute_columns =>
                  /\ ret.out.raised = "None"
                  /\ ret.out.value # <<>>
            /\ profile = ret.on

\* attribute_stats has raised ValueError for the geometry column of a
\* profile that has attribute columns, and the profile is unchanged.
C20_Witness ==
    /\ ret.op = "attribute_stats"
    /\ ret.param = ret.on.gdf.geometry_name
    /\ DOMAIN ret.on.attribute_results.column_stats # {}
    /\ ret.out.raised = "ValueError"
    /\ profile = ret.on

\* The index lists of the checks, each with the count reported beside it.
IndexLists ==
    {<<"invalid_indices", "invalid_count">>, <<"empty_indices", "empty_count">>,
     <<"null_indices", "null_count">>, <<"bad_ring_indices", "bad_ring_count">>,
     <<"sliver_indices", "sliver_count">>,
     <<"excessive_precision_indices", "excessive_precision_count">>}

IndexChecks ==
    {"check_validity", "check_empty", "check_null", "check_all", "check_ring_validity",
     "check_slivers", "check_coordinate_precision"}

\* C21: every index list a check produces holds feature ordinals of the
\* store (0 .. n-1) in strictly increasing order, so none twice; the count
\* reported with a list is its length; and null_indices, empty_indices and
\* invalid_indices of one store are pairwise disjoint.
C21_IndexLists ==
    ret.op \in IndexChecks =>
        /\ \A lc \in IndexLists :
              lc[1] \in DOMAIN ret.out =>
                  LET list == ret.out[lc[1]]
                  IN  /\ \A k \in DOMAIN list : list[k] \in 0..(NumRows(ret.on) - 1)
                      /\ \A k \in 1..(Len(list) - 1) : list[k] < list[k + 1]
                      /\ ret.out[lc[2]] = Len(list)
        /\ ret.op = "check_all" =>
              /\ Range(ret.out.null_indices) \cap Range(ret.out.empty_indices) = {}
              /\ Range(ret.out.null_indices) \cap Range(ret.out.invalid_indices) = {}
              /\ Range(ret.out.empty_indices) \cap Range(ret.out.invalid_indices) = {}

\* check_all has listed a null, an empty and an invalid geometry of one
\* store, each in its own list.
C21_Witness ==
    /\ ret.op = "check_all"
    /\ Len(ret.out.null_indices) = 1
    /\ Len(ret.out.empty_indices) = 1
    /\ Len(ret.out.invalid_indices) = 1
    /\ ret.out.total_features = 3

\* The entries of s at the positions outside F, in order.
RECURSIVE KeepFrom(_, _, _)
KeepFrom(s, F, i) ==
    IF i > Len(s) THEN <<>>
    ELSE (IF i \in F THEN <<>> ELSE <<s[i]>>) \o KeepFrom(s, F, i + 1)

\* The store without the rows at the positions in F (the other rows keep
\* their labels), and the store with a null geometry at those positions.
WithoutRows(f, F) ==
    [f EXCEPT !.index = KeepFrom(f.index, F, 1),
              !.columns = [c \in DOMAIN f.columns |-> KeepFrom(f.columns[c], F, 1)]]
Nulled(f, F) ==
    [f EXCEPT !.columns = [c \in DOMAIN f.columns |->
                              [i \in DOMAIN f.columns[c] |->
                                  IF i \in F THEN NullGeom ELSE f.columns[c][i]]]]
\* The Python indices of the positions in F.
Indices(F) == {i - 1 : i \in F}

\* C22: in check_validity a fault of the reason extraction of an invalid
\* geometry does not end the call: the call returns, invalid_indices and
\* invalid_count are those of the call without the fault (the faulting
\* geometry and every later feature included), and only the reason entry
\* of the faulting geometry is missing.
C22_ReasonFault ==
    ret.op = "check_validity" =>
        LET clean == check_validity(ret.on)
            kept == SelectSeq(clean.invalid_reasons,
                              LAMBDA e : e[1] \notin Indices(ret.param.faults))
        IN  /\ ret.out.raised = "None"
            /\ ret.out.value.invalid_indices = clean.invalid_indices
            /\ ret.out.value.invalid_count = clean.invalid_count
            /\ ret.out.value.valid_count = clean.valid_count
            /\ ret.out.value.invalid_reasons = kept

\* C23: in check_duplicates a fault of the encoding of a feature leaves
\* that feature alone out of the comparison: the call reports the count and
\* the indices it reports for the store without the faulting features.
C23_EncodingFault ==
    ret.op = "check_duplicates" =>
        LET fired == {i \in ret.param.faults : Comparable(Geometry(ret.on)[i])}
        IN  ret.out = check_duplicates(WithoutRows(ret.on, fired))

C28_DuplicateIndexSpace ==
    ret.op = "check_duplicates" =>
        LET duplicated_mask == duplicated(wkb_values(ret.on), "False")
        IN  /\ Range(ret.out.duplicate_indices)
                  = {i - 1 : i \in {k \in DOMAIN duplicated_mask : duplicated_mask[k]}}
            /\ \A k \in DOMAIN ret.out.duplicate_indices :
                  ret.out.duplicate_indices[k] \in 0..(NumRows(ret.on) - 1)

\* Every order of the numbers of a set.
RECURSIVE Perms(_)
Perms(S) ==
    IF S = {} THEN {<<>>}
    ELSE UNION {{<<x>> \o rest : rest \in Perms(S \ {x})} : x \in S}

CheckOrders6 == Perms(1..6)

CheckOrders4 == Perms(1..4)

\* The results after the dictionaries of parts are merged in the order given.
RECURSIVE Merge(_, _, _, _)
Merge(parts, order, k, results) ==
    IF k > Len(order) THEN results
    ELSE Merge(parts, order, k + 1, Update(results, parts[order[k]]))

PairwiseDisjointKeys(parts) ==
    \A a, b \in DOMAIN parts : a # b => (DOMAIN parts[a]) \cap (DOMAIN parts[b]) = {}

\* The dictionaries GeometryChecker.check_all merges into the results.
GeometryParts(f) ==
    <<check_validity(f), check_empty(f), check_null(f), check_duplicates(f),
      check_geometry_types(f), compute_complexity(f)>>

\* The dictionaries TopologyChecker.check_all can merge into the results.
TopologyParts(f, max_features) ==
    {<<ring, check_coordinate_precision(f, DefaultMaxDecimals),
       check_slivers(f, DefaultThresholdPct), o>> :
        ring \in check_ring_validity(f),
        o \in (IF NumRows(f) <= max_features THEN check_self_overlaps(f)
               ELSE {[self_overlap_count |-> -1, self_overlap_skipped |-> TRUE]})}

\* C25: the dictionaries the checks of check_all return have pairwise
\* disjoint sets of keys, disjoint from "total_features" too, for both
\* checkers (the keys of a skipped overlap scan included), and so the merged
\* result is the same for every order in which the checks are merged.
C25_DisjointKeys ==
    /\ ret.op = "check_all" =>
          LET parts == GeometryParts(ret.on)
              first == [total_features |-> NumRows(ret.on)]
          IN  /\ PairwiseDisjointKeys(<<first>> \o parts)
              /\ \A order \in CheckOrders6 : Merge(parts, order, 1, first) = ret.out
    /\ ret.op = "topology_check_all" =>
          /\ \A parts \in TopologyParts(ret.on, ret.param) : PairwiseDisjointKeys(parts)
          /\ \E parts \in TopologyParts(ret.on, ret.param) :
                \A order \in CheckOrders4 : Merge(parts, order, 1, <<>>) = ret.out

\* The topology checks have been merged on a store of more features than
\* the ceiling of the overlap scan: the keys of the skipped scan are merged.
C25_Witness ==
    /\ ret.op = "topology_check_all"
    /\ NumRows(ret.on) > ret.param
    /\ "self_overlap_skipped" \in DOMAIN ret.out
    /\ ret.out.self_overlap_count = -1

CountKeys ==
    {"valid_count", "invalid_count", "empty_count", "null_count", "duplicate_count",
     "total_features", "max_vertices", "min_vertices", "total_vertices",
     "self_overlap_count", "bad_ring_count", "excessive_precision_count", "sliver_count"}

ListKeys ==
    {"invalid_indices", "invalid_reasons", "empty_indices", "null_indices",
     "duplicate_indices", "geometry_types", "self_overlap_pairs", "bad_ring_indices",
     "excessive_precision_indices", "precision_sample_coords", "sliver_indices"}

CheckOps ==
    {"check_validity", "check_empty", "check_null", "check_duplicates",
     "check_geometry_types", "compute_complexity", "check_all", "check_self_overlaps",
     "check_ring_validity", "check_coordinate_precision", "check_slivers",
     "topology_check_all"}

\* C27: on a store of no feature every check of both checkers returns a
\* dictionary whose counts are 0 and whose lists are empty, the dominant
\* geometry type is "Unknown", the overlap scan is not skipped, and the
\* quality score is a quotient whose divisor is not 0.
C27_EmptyStore ==
    /\ (ret.op \in CheckOps /\ NumRows(ret.on) = 0) =>
          /\ ret.out \notin {Raised(x) : x \in {"Exception", "ValueError", "ZeroDivisionError"}}
          /\ \A key \in DOMAIN ret.out :
                /\ key \in CountKeys => ret.out[key] = 0
                /\ key \in ListKeys => ret.out[key] = <<>>
                /\ key = "geometry_type" => ret.out[key] = "Unknown"
                /\ key = "mixed_types" => ret.out[key] = FALSE
                /\ key = "avg_vertices" => ret.out[key][1] = 0 /\ ret.out[key][2] > 0
                /\ key # "self_overlap_skipped"
    /\ (ret.op = "quality_score" /\ feature_count(ret.on) = 0) =>
          /\ ret.out[2] > 0
          /\ ret.out[1] \in 0..(100 * ret.out[2])
    /\ (ret.op = "geometry_type" /\ feature_count(ret.on) = 0) => ret.out = "Unknown"

\* The score of a profile of no feature whose frame has an attribute column:
\* the cell count is 0.
C27_Witness ==
    /\ ret.op = "quality_score"
    /\ feature_count(ret.on) = 0
    /\ column_count(ret.on) > 0
    /\ feature_count(ret.on) * column_count(ret.on) = 0

\* C29: the geometry type a profile reports, computed by the spatial
\* analyzer, is the dominant type the geometry checker reports, for every
\* dataset: types that tie, null geometries and the dataset of no feature
\* included.
C29_SameDominantType ==
    /\ profile # NoProfile =>
          geometry_type(profile) = profile.geometry_results.geometry_type
    /\ ret.op = "geometry_type" =>
          /\ ret.out = ret.on.geometry_results.geometry_type
          /\ ret.out = check_geometry_types(ret.on.gdf).geometry_type

\* The type of a dataset that holds a null geometry and two types that tie,
\* the type that comes second being neither the least nor the last name.
C29_Witness ==
    /\ ret.op = "geometry_type"
    /\ Cardinality(TopTypes(Geometry(ret.on.gdf))) = 2
    /\ \E i \in DOMAIN Geometry(ret.on.gdf) : is_null(Geometry(ret.on.gdf)[i])
    /\ \E i, j \in DOMAIN Geometry(ret.on.gdf) :
          /\ i < j
          /\ ~is_null(Geometry(ret.on.gdf)[i]) /\ ~is_null(Geometry(ret.on.gdf)[j])
          /\ ret.out = Geometry(ret.on.gdf)[i].geom_type
          /\ ret.out # Geometry(ret.on.gdf)[j].geom_type

\* C30: in the row "Attribute Completeness" the status is FAIL exactly when
\* the severity is High, WARN exactly when it is Medium, and PASS exactly
\* when it is None or Low, whatever the share of missing cells is.
C30_StatusSeverity ==
    ret.op = "quality_checks" =>
        LET row == ret.out[5]
        IN  /\ row.Check = "Attribute Completeness"
            /\ row.Status = "FAIL" <=> row.Severity = "High"
            /\ row.Status = "WARN" <=> row.Severity = "Medium"
            /\ row.Status = "PASS" <=> row.Severity \in {"None", "Low"}

\* C26: once a profile is built, no call of summary, quality_checks,
\* quality_score, attribute_stats, geometry_stats, show_map or to_html,
\* raising or not, and no change the caller makes to the frame it was built
\* from changes its geometry, attribute and spatial results or its frame;
\* quality_score has the same value after every step, and every call of it
\* returns that value.
C26_ResultsFixed ==
    [][profile # NoProfile =>
          /\ profile'.geometry_results = profile.geometry_results
          /\ profile'.attribute_results = profile.attribute_results
          /\ profile'.spatial_results = profile.spatial_results
          /\ profile'.gdf = profile.gdf
          /\ quality_score(profile') = quality_score(profile)
          /\ ret'.op = "quality_score" => ret'.out = quality_score(profile)]_vars

\* quality_score is called after the caller has changed the CRS of the
\* frame, and after a call that raised could have been made.
C26_Witness ==
    /\ ret.op = "quality_score"
    /\ profile # NoProfile
    /\ gdf.crs # profile.gdf.crs
    /\ ret.out = quality_score(GeoProfile(profile.gdf))
    /\ ret.out # quality_score(GeoProfile(gdf))

====
